---------------------------- MODULE Spec2Model ----------------------------
(***************************************************************************)
(* ST touchpad driver (touchpad_st.c): the system state machine, the event *)
(* reader and HID report builder, the flash programmer and the heat-map    *)
(* double buffer, modelled as a state machine.                             *)
(*                                                                         *)
(* Every handler of the driver is one action.  A handler is written in     *)
(* context-passing style: an operator takes the driver context c (the      *)
(* fields the C code reads and writes, the transactions issued so far in   *)
(* this handler, and the answers the bus will give) and returns the context*)
(* after the C function has run.  c.ret is the C function's return value.  *)
(***************************************************************************)
EXTENDS Integers, Sequences, FiniteSets, TLC

VARIABLES
    system_state,   \* static int system_state (bit mask)
    dev,            \* configuration the touchpad controller last acknowledged
    gpio_int,       \* GPIO_TOUCHPAD_INT interrupt enabled
    deferred,       \* deferred calls scheduled with hook_call_deferred
    rx_buf,         \* static receive buffer (a union): what it holds
    system_info,    \* cached system info
    irq_ts,         \* timestamp of the last touchpad interrupt
    tp_wake,        \* TASK_EVENT_WAKE pending for the touchpad task
    tp_started,     \* touchpad_task is past st_tp_init()
    reports,        \* reports the last handler gave to set_touchpad_report
    log,            \* console lines the last handler printed
    tx,             \* transactions issued by the last handler, in order
    upd,            \* st_tp_update_system_state calls made by the last handler
    rep,            \* how the last handler's first such call repeats the one before
    ret,            \* return value of the last handler
    op,             \* the last handler and its arguments
    spi_buffer_index,       \* next buffer index SPI will write to
    usb_buffer_index,       \* next buffer index USB will read from
    usb_packet,             \* the two frame buffers
    transmit_report_offset, \* bytes of the current frame transmitted
    packet_header,          \* header of the next USB packet
    hm_wake,        \* event pending for the heat map task
    hm_pc,          \* where the heat map task waits: "wait" or "retry"
    tp_pc,          \* where the touchpad task is: "run", or "print" when
                    \* it was preempted in print_frame of st_tp_read_report
    ep_tx,          \* interrupt endpoint has a report to transmit
    out,            \* what the last handler did to the buffers and the USB
    req,            \* firmware update request of the host, not yet served
    written         \* the successful update calls since the last one at
                    \* offset 0 cover the image from 0 up to this offset

vars == <<system_state, dev, gpio_int, deferred, rx_buf, system_info, irq_ts,
          tp_wake, tp_started, reports, log, tx, upd, rep, ret, op,
          spi_buffer_index, usb_buffer_index, usb_packet,
          transmit_report_offset, packet_header, hm_wake, hm_pc, tp_pc, ep_tx,
          out, req, written>>

---------------------------------------------------------------------------
(* Bounds of the model *)

\* Number of leading transactions of one handler whose result is chosen
\* freely (success or an error); later ones succeed.
MaxFail == 3

\* The heat-map buffers and the USB packets
\* Width of spi_buffer_index and usb_buffer_index (uint32_t), scaled down.
IndexBits == 2
IndexMod == 2 ^ IndexBits
\* Width of packet_header.index (uint8_t), scaled down.
HeaderIndexBits == 1
\* ST_TOUCH_ROWS * ST_TOUCH_COLS, scaled down.
NumPixels == 2
\* USB_ISO_PACKET_SIZE, scaled down.
USB_ISO_PACKET_SIZE == 4
\* sizeof(struct packet_header_t)
PacketHeaderSize == 2
\* sizeof(struct st_tp_usb_packet_t): flags and the frame
PacketSize == 1 + NumPixels
\* BITS_PER_PIXEL and ST_TP_HEAT_MAP_THRESHOLD of the build
BITS_PER_PIXEL == 9
ST_TP_HEAT_MAP_THRESHOLD == 3

Min(a, b) == IF a < b THEN a ELSE b
Max(a, b) == IF a > b THEN a ELSE b

\* uint32_t arithmetic on the buffer indices
IndexInc(i) == (i + 1) % IndexMod
IndexSub(a, b) == (a - b + IndexMod) % IndexMod

\* The firmware image and the flash buffer
\* ST_TP_DMA_CHUNK_SIZE, scaled down; a whole number of words.
ST_TP_DMA_CHUNK_SIZE == 4
\* Chunks that fill the flash buffer
ChunksPerBuffer == 2
ST_TP_FLASH_BUFFER_SIZE == ChunksPerBuffer * ST_TP_DMA_CHUNK_SIZE
\* The sections of the image in flash buffers: main, CX, config
MainBuffers == 2
CxBuffers == 1
ConfigBuffers == 1
ST_TP_FLASH_OFFSET_CX == MainBuffers * ST_TP_FLASH_BUFFER_SIZE
ST_TP_FLASH_OFFSET_CONFIG ==
    ST_TP_FLASH_OFFSET_CX + CxBuffers * ST_TP_FLASH_BUFFER_SIZE
CONFIG_TOUCHPAD_VIRTUAL_SIZE ==
    ST_TP_FLASH_OFFSET_CONFIG + ConfigBuffers * ST_TP_FLASH_BUFFER_SIZE
\* retry = 200 in wait_for_flash_ready, scaled down
FLASH_RETRY == 2
\* addr = 0x00100000: where the flash buffer starts
FlashBufferAddr == 1048576
\* Chunks a call of touchpad_update_write carries at most
MaxWriteChunks == 3
\* Transactions of a call of touchpad_update_write that can fail
MaxFlashFail == 5

---------------------------------------------------------------------------
(* Program constants *)

SYSTEM_STATE_DEBUG_MODE == 1
SYSTEM_STATE_ENABLE_HEAT_MAP == 2
SYSTEM_STATE_ENABLE_DOME_SWITCH == 4
SYSTEM_STATE_ACTIVE_MODE == 8
SYSTEM_STATE_DOME_SWITCH_LEVEL == 16

\* Width of the bit masks the driver passes around (5 flags are defined).
STATE_BITS == 5
AllBits == 2 ^ STATE_BITS - 1

EC_SUCCESS == 0
EC_ERROR_UNKNOWN == 1
EC_ERROR_TIMEOUT == 4
EC_ERROR_INVAL == 5
EC_ERROR_BUSY == 6

\* enum ec_status of the host command interface
EC_RES_INVALID_PARAM == 3

\* Error codes a failing spi_transaction may return.
SpiErrors == {EC_ERROR_UNKNOWN, EC_ERROR_TIMEOUT}

---------------------------------------------------------------------------
(* Bit operations on ints *)

RECURSIVE BitAnd(_, _)
BitAnd(a, b) ==
    IF a = 0 \/ b = 0 THEN 0
    ELSE (a % 2) * (b % 2) + 2 * BitAnd(a \div 2, b \div 2)

RECURSIVE BitOr(_, _)
BitOr(a, b) ==
    IF a = 0 THEN b
    ELSE IF b = 0 THEN a
    ELSE (IF a % 2 = 1 \/ b % 2 = 1 THEN 1 ELSE 0)
         + 2 * BitOr(a \div 2, b \div 2)

BitNot(m) == AllBits - BitAnd(m, AllBits)

\* set_bits(): *lvalue &= ~mask; *lvalue |= rvalue & mask;
set_bits(lvalue, rvalue, mask) ==
    BitOr(BitAnd(lvalue, BitNot(mask)), BitAnd(rvalue, mask))

Bool(x) == IF x # 0 THEN 1 ELSE 0

\* F(v), with v evaluated once before F is applied (a loop body that uses
\* the result of a call several times).
Bind(v, F(_)) == CHOOSE r \in {F(x) : x \in {v}} : TRUE

---------------------------------------------------------------------------
(* Event records (struct st_tp_event_t) and the touch report *)

\* ARRAY_SIZE(rx_buf.events): 32 in the source, scaled down.
NumEventSlots == 3
\* ARRAY_SIZE(report->finger) of struct usb_hid_touchpad_report, scaled down.
MaxFingers == 2

CONFIG_USB_HID_TOUCHPAD_LOGICAL_MAX_X == 3206
CONFIG_USB_HID_TOUCHPAD_LOGICAL_MAX_Y == 1832
USB_HID_TOUCHPAD_TIMESTAMP_UNIT == 100

ST_TP_EVENT_MAGIC == "MAGIC"

Event(magic, evt_id, touch_type, touch_id, x, y, z, report_type, info) ==
    [magic |-> magic, evt_id |-> evt_id, touch_type |-> touch_type,
     touch_id |-> touch_id, x |-> x, y |-> y, z |-> z,
     minor |-> 3, minor_high |-> 1, major |-> 5, major_high |-> 0,
     report_type |-> report_type, info |-> info]

\* A slot the device did not fill: its magic byte is not the event magic.
InvalidEvent == Event("OTHER", "ENTER_POINTER", "FINGER", 9, 1, 1, 1, "", <<>>)
InvalidError == Event("OTHER", "ERROR_REPORT", "", 0, 0, 0, 0, "ESD", <<"0x01", "0x02">>)
ErrorReport == Event("MAGIC", "ERROR_REPORT", "", 0, 0, 0, 0, "ESD", <<"0x01", "0x02">>)
ControllerReady == Event("MAGIC", "CONTROLLER_READY", "", 0, 0, 0, 0, "", <<>>)
\* The echo of { ST_TP_CMD_WRITE_SYSTEM_COMMAND, 0x00, 0x03 }, and another.
EchoFullInit ==
    Event("MAGIC", "STATUS_REPORT", "", 0, 0, 0, 0, "CMD_ECHO",
          <<"WRITE_SYSTEM_COMMAND", "0x00", "0x03">>)
EchoOther ==
    Event("MAGIC", "STATUS_REPORT", "", 0, 0, 0, 0, "CMD_ECHO",
          <<"WRITE_SYSTEM_COMMAND", "0x01", "0x01">>)
EnterPointer == Event("MAGIC", "ENTER_POINTER", "FINGER", 1, 100, 50, 10, "", <<>>)
MotionPointer == Event("MAGIC", "MOTION_POINTER", "FINGER", 2, 7, 1832, 255, "", <<>>)
LeavePointer == Event("MAGIC", "LEAVE_POINTER", "FINGER", 3, 11, 12, 13, "", <<>>)
\* A pointer event whose touch type is ST_TP_TOUCH_TYPE_INVALID.
NotAFinger == Event("MAGIC", "MOTION_POINTER", "INVALID", 4, 20, 30, 40, "", <<>>)

NoEvents == [i \in 1..NumEventSlots |-> InvalidEvent]

\* A batch that holds the events es, then unfilled slots.
Batch(es) ==
    [i \in 1..NumEventSlots |-> IF i <= Len(es) THEN es[i] ELSE InvalidEvent]

NoFinger ==
    [tip |-> 0, inrange |-> 0, id |-> 0, pressure |-> 0, width |-> 0,
     height |-> 0, x |-> 0, y |-> 0]

\* memset(&report, 0, sizeof(report)); report.id = 0x1;
EmptyReport ==
    [id |-> 1, finger |-> [i \in 0..(MaxFingers - 1) |-> NoFinger],
     count |-> 0, button |-> 0, timestamp |-> 0]

NoHeader == [domeswitch_chg |-> FALSE, dome_switch_level |-> 0]
ST_TP_MEM_ID_SYSTEM_INFO == 1
\* struct st_tp_host_data_header_t as the driver reads it
NoHostData == [magic_ok |-> FALSE, mem_id |-> 0, count |-> 0]
\* struct st_tp_system_info_t: the header and the release info of part 1
NoInfo == [magic_ok |-> FALSE, mem_id |-> 0, count |-> 0, release_info |-> 0]
GoodInfo ==
    [magic_ok |-> TRUE, mem_id |-> ST_TP_MEM_ID_SYSTEM_INFO, count |-> 1,
     release_info |-> 3]
BadInfo == [GoodInfo EXCEPT !.magic_ok = FALSE]
\* struct touchpad_info as touchpad_get_info fills it: whether the default
\* values stand in for the system info, and the firmware version
NoTp == [filled |-> FALSE, default |-> FALSE, fw_version |-> 0]

---------------------------------------------------------------------------
(* The bus and the device *)

DevDefault == [heat |-> FALSE, dome |-> FALSE, active |-> FALSE]

Cmd(cmd, sub, val) == [cmd |-> cmd, sub |-> sub, val |-> val]

\* What the controller does with a command it acknowledged.
DevApply(d, m) ==
    IF m.cmd = "WRITE_FEATURE_SELECT"
    THEN [d EXCEPT !.heat = (m.val % 2 = 1), !.dome = ((m.val \div 2) % 2 = 1)]
    ELSE IF m.cmd = "WRITE_SCAN_MODE_SELECT" /\ m.sub = "ACTIVE"
    THEN [d EXCEPT !.active = (m.val = 1)]
    ELSE d

\* The result the bus gives to the n-th transaction of a handler.
BusResult(c, n) ==
    IF n \in DOMAIN c.env.fail THEN c.env.fail[n] ELSE EC_SUCCESS

\* What a read transaction leaves in rx_buf: the device's answer.  The
\* answers to the successive READ_ALL_EVENTS of a handler are c.env.events;
\* once they are used up the device has no event (every slot invalid).
Answer(c, m) ==
    IF m.cmd = "READ_ALL_EVENTS"
    THEN [kind |-> "events",
          data |-> IF c.nev < Len(c.env.events)
                   THEN c.env.events[c.nev + 1] ELSE NoEvents]
    ELSE IF m.cmd = "READ_SPI_HOST_BUFFER" /\ m.sub = "header"
    THEN [kind |-> "buffer_header", data |-> c.env.hdr]
    ELSE IF m.cmd = "READ_SPI_HOST_BUFFER" /\ m.sub = "heat_map"
    THEN [kind |-> "heat_map", data |-> c.env.frame]
    ELSE IF m.cmd = "READ_HW_REG"
    THEN [kind |-> "bytes", data |-> c.nbusy < c.env.busy]
    ELSE IF m.cmd = "READ_HOST_DATA_MEMORY" /\ m.sub = "system_info"
    THEN [kind |-> "system_info", data |-> c.env.info]
    ELSE IF m.cmd = "READ_HOST_DATA_MEMORY" /\ m.sub = "header"
    THEN [kind |-> "data_header",
          data |-> IF c.nhd < Len(c.env.hdata)
                   THEN c.env.hdata[c.nhd + 1] ELSE NoHostData]
    ELSE c.rx

\* spi_transaction(): one transaction; c.ret is its return value.  A failed
\* transaction leaves rx_buf and the device as they were.
spi_transaction(c, m) ==
    LET n == c.n + 1
        r == BusResult(c, n)
    IN [c EXCEPT !.n = n,
                 !.tx = Append(@, [cmd |-> m.cmd, sub |-> m.sub,
                                   val |-> m.val, ret |-> r]),
                 !.dev = IF r = EC_SUCCESS THEN DevApply(@, m) ELSE @,
                 !.rx = IF r = EC_SUCCESS THEN Answer(c, m) ELSE @,
                 !.nev = IF r = EC_SUCCESS /\ m.cmd = "READ_ALL_EVENTS"
                         THEN @ + 1 ELSE @,
                 !.nbusy = IF r = EC_SUCCESS /\ m.cmd = "READ_HW_REG"
                           THEN @ + 1 ELSE @,
                 !.nhd = IF r = EC_SUCCESS /\ m.cmd = "READ_HOST_DATA_MEMORY"
                            /\ m.sub = "header"
                         THEN @ + 1 ELSE @,
                 !.ret = r]

\* Something the handler did that is no bus transaction (a hardware reset,
\* a sleep), kept in the trace for its place in the order.
Note(c, what) ==
    [c EXCEPT !.tx = Append(@, [cmd |-> what, sub |-> "", val |-> 0,
                                ret |-> EC_SUCCESS])]

\* CPRINTS(): a line on the console
CPrints(c, line) ==
    [c EXCEPT !.log = Append(@, [line |-> line, slot |-> 0, type |-> "",
                                 info |-> <<>>])]

\* hook_call_deferred(): the call is scheduled; it is taken off when it runs
Schedule(c, name) == [c EXCEPT !.dfr = @ \cup {name}]
Unschedule(c, name) == [c EXCEPT !.dfr = @ \ {name}]

\* The context a handler starts with; env holds the answers of the bus.
Ctx(env) ==
    [ss |-> system_state, dev |-> dev, irq |-> gpio_int, dfr |-> deferred,
     rx |-> rx_buf, info |-> system_info, reports |-> <<>>, log |-> <<>>,
     wake |-> tp_wake, tx |-> <<>>, upd |-> <<>>, n |-> 0, nev |-> 0,
     nhd |-> 0, nbusy |-> 0, env |-> env, ret |-> EC_SUCCESS,
     ts |-> irq_ts,
     spi |-> spi_buffer_index, usb |-> usb_buffer_index, pkt |-> usb_packet,
     off |-> transmit_report_offset, hidx |-> packet_header.index,
     hflags |-> packet_header.flags, hmw |-> hm_wake, hpc |-> hm_pc,
     tpc |-> tp_pc,
     eptx |-> ep_tx, tried |-> FALSE, wrote |-> <<>>, iso |-> <<>>,
     intr |-> <<>>, evs |-> <<>>, hdrs |-> <<>>, flash |-> <<>>,
     load |-> <<>>, tp |-> NoTp, req |-> req, wr |-> written,
     cap |-> EC_SUCCESS, gpio |-> <<>>]

\* The results of the transactions of one handler: those in a set of the
\* first MaxFail fail with the same error, the others succeed.
Oracles ==
    {[n \in 1..MaxFail |-> IF n \in F THEN e ELSE EC_SUCCESS] :
        F \in SUBSET (1..MaxFail), e \in SpiErrors}

\* An environment: the results of the transactions and the device's answers.
Env(fail, events, hdr, info) ==
    [fail |-> fail, events |-> events, hdr |-> hdr, info |-> info,
     hdata |-> <<>>, stale |-> NoHostData,
     frame |-> [i \in 1..NumPixels |-> 0], usb |-> "none", busy |-> 0]

\* Only the results of the transactions matter to the handler.
FailEnv(fail) == Env(fail, <<>>, NoHeader, NoInfo)

---------------------------------------------------------------------------
(* st_tp_update_system_state *)

FEATURE_MASK ==
    BitOr(SYSTEM_STATE_ENABLE_HEAT_MAP, SYSTEM_STATE_ENABLE_DOME_SWITCH)

\* A commit that does not look at the transaction's result.
CommitGroupUnchecked(c, new_state, mask) ==
    [c EXCEPT !.ss = set_bits(@, new_state, mask)]

\* Commit of a flag group: set_bits(&system_state, new_state, mask), done
\* after the group's transaction returned success.
CommitGroup(c, new_state, mask) ==
    IF c.ret # EC_SUCCESS THEN c
    ELSE [c EXCEPT !.ss = set_bits(@, new_state, mask)]

UpdDebug(c, new_state) ==
    LET mask == SYSTEM_STATE_DEBUG_MODE
    IN IF BitAnd(new_state, mask) # BitAnd(c.ss, mask)
       THEN [c EXCEPT !.ss = set_bits(@, new_state, mask)]
       ELSE c

UpdFeature(c, new_state) ==
    LET mask == FEATURE_MASK
        byte == (IF BitAnd(new_state, SYSTEM_STATE_ENABLE_HEAT_MAP) # 0
                 THEN 1 ELSE 0)
                + (IF BitAnd(new_state, SYSTEM_STATE_ENABLE_DOME_SWITCH) # 0
                   THEN 2 ELSE 0)
    IN IF BitAnd(new_state, mask) # BitAnd(c.ss, mask)
       THEN CommitGroup(
                spi_transaction(c, Cmd("WRITE_FEATURE_SELECT", "0x05", byte)),
                new_state, mask)
       ELSE c

UpdActive(c, new_state) ==
    LET mask == SYSTEM_STATE_ACTIVE_MODE
    IN IF BitAnd(new_state, mask) # BitAnd(c.ss, mask)
       THEN CommitGroup(
                spi_transaction(c, Cmd("WRITE_SCAN_MODE_SELECT", "ACTIVE",
                                       Bool(BitAnd(new_state, mask)))),
                new_state, mask)
       ELSE c

UpdLocked(c, need_locked_scan_mode) ==
    IF need_locked_scan_mode
    THEN spi_transaction(c, Cmd("WRITE_SCAN_MODE_SELECT", "LOCKED", 0))
    ELSE c

\* need_locked_scan_mode set whenever the heat map is asked for.
NeedLockedAlways(c, new_state) ==
    BitAnd(new_state, SYSTEM_STATE_ENABLE_HEAT_MAP) # 0

\* need_locked_scan_mode as the feature-select block sets it.
NeedLocked(c, new_state) ==
    /\ BitAnd(new_state, FEATURE_MASK) # BitAnd(c.ss, FEATURE_MASK)
    /\ BitAnd(new_state, SYSTEM_STATE_ENABLE_HEAT_MAP) # 0

UpdBody(c, new_state) ==
    LET c1 == UpdDebug([c EXCEPT !.ret = EC_SUCCESS], new_state)
        need == NeedLocked(c1, new_state)
        c2 == UpdFeature(c1, new_state)
    IN IF c2.ret # EC_SUCCESS THEN c2
       ELSE LET c3 == UpdActive(c2, new_state)
            IN IF c3.ret # EC_SUCCESS THEN c3
               ELSE UpdLocked(c3, need)

\* A call that takes every bit from its argument: the reserved bits are
\* not copied.
st_tp_update_system_state_uncopied(c, new_state_arg, mask) ==
    LET d == UpdBody(c, new_state_arg)
    IN [d EXCEPT !.upd = Append(@,
            [target |-> new_state_arg, mask |-> mask,
             pre |-> c.ss, post |-> d.ss,
             cmds |-> SubSeq(d.tx, Len(c.tx) + 1, Len(d.tx)),
             ret |-> d.ret])]

\* The call as a whole; it is logged in c.upd with its arguments, the
\* system_state before and after, and the transactions it issued.
st_tp_update_system_state(c, new_state_arg, mask) ==
    LET new_state == set_bits(new_state_arg, c.ss, BitNot(mask))
        d == UpdBody(c, new_state)
    IN [d EXCEPT !.upd = Append(@,
            [target |-> new_state_arg, mask |-> mask,
             pre |-> c.ss, post |-> d.ss,
             cmds |-> SubSeq(d.tx, Len(c.tx) + 1, Len(d.tx)),
             ret |-> d.ret])]

---------------------------------------------------------------------------
(* Scan control *)

st_tp_send_ack(c) == spi_transaction(c, Cmd("SPI_HOST_BUFFER_ACK", "", 0))

\* gpio_enable_interrupt / gpio_disable_interrupt(GPIO_TOUCHPAD_INT); the
\* call is kept in c.gpio with the number of transactions issued before it.
GpioInterrupt(c, enable) ==
    [c EXCEPT !.irq = enable,
              !.gpio = Append(@, [enable |-> enable, at |-> Len(c.tx)])]

\* The interrupt is switched at the GPIO after the command in both
\* directions.
st_tp_enable_interrupt_gpio_last(c, enable) ==
    GpioInterrupt(spi_transaction(c, Cmd("WRITE_SYSTEM_COMMAND", "0x01",
                                         IF enable THEN 1 ELSE 0)),
                  enable)

st_tp_enable_interrupt(c, enable) ==
    LET c1 == IF enable THEN GpioInterrupt(c, TRUE) ELSE c
        c2 == spi_transaction(c1, Cmd("WRITE_SYSTEM_COMMAND", "0x01",
                                      IF enable THEN 1 ELSE 0))
    IN IF enable THEN c2 ELSE GpioInterrupt(c2, FALSE)

st_tp_start_scan(c) ==
    LET new_state == BitOr(SYSTEM_STATE_ACTIVE_MODE,
                           SYSTEM_STATE_ENABLE_DOME_SWITCH)
        c1 == st_tp_update_system_state(c, new_state, new_state)
    IN IF c1.ret # EC_SUCCESS THEN c1
       ELSE [st_tp_enable_interrupt(st_tp_send_ack(c1), TRUE)
                EXCEPT !.ret = c1.ret]

st_tp_stop_scan(c) ==
    LET c1 == st_tp_update_system_state(c, 0, SYSTEM_STATE_ACTIVE_MODE)
    IN [st_tp_enable_interrupt(c1, FALSE) EXCEPT !.ret = c1.ret]

st_tp_enable_heat_map(c) ==
    LET new_state == BitOr(SYSTEM_STATE_ENABLE_HEAT_MAP,
                           BitOr(SYSTEM_STATE_ENABLE_DOME_SWITCH,
                                 SYSTEM_STATE_ACTIVE_MODE))
    IN st_tp_update_system_state(c, new_state, new_state)

st_tp_disable_heat_map(c) ==
    st_tp_update_system_state(c, 0, SYSTEM_STATE_ENABLE_HEAT_MAP)

---------------------------------------------------------------------------
(* Event reader *)

\* A handler for which every error report is a major error.
st_tp_handle_error_report_major(c, e, slot) ==
    IF e.magic # ST_TP_EVENT_MAGIC \/ e.evt_id # "ERROR_REPORT"
    THEN [c EXCEPT !.ret = 0]
    ELSE [c EXCEPT !.log = Append(@, [line |-> "Touchpad error", slot |-> slot,
                                      type |-> e.report_type, info |-> e.info]),
                   !.ret = EC_ERROR_UNKNOWN]

\* st_tp_handle_error_report(): prints the report; every error is minor.
\* The slot is kept with the printed line to tell which record was handled.
st_tp_handle_error_report(c, e, slot) ==
    IF e.magic # ST_TP_EVENT_MAGIC \/ e.evt_id # "ERROR_REPORT"
    THEN [c EXCEPT !.ret = 0]
    ELSE [c EXCEPT !.log = Append(@, [line |-> "Touchpad error", slot |-> slot,
                                      type |-> e.report_type, info |-> e.info]),
                   !.ret = 0]

\* A scan that steps over a record with a bad magic byte.
RECURSIVE ScanEventsPastBadMagic(_, _)
ScanEventsPastBadMagic(c, i) ==
    IF i >= NumEventSlots THEN [c EXCEPT !.ret = i]
    ELSE LET e == c.rx.data[i + 1]
         IN IF e.evt_id = "ERROR_REPORT"
            THEN Bind(st_tp_handle_error_report(
                          c, [e EXCEPT !.magic = ST_TP_EVENT_MAGIC], i),
                      LAMBDA c1 : ScanEventsPastBadMagic(c1, i + 1))
            ELSE ScanEventsPastBadMagic(c, i + 1)

\* The scan loop of st_tp_read_all_events, from slot i (0-based) on.
RECURSIVE ScanEvents(_, _)
ScanEvents(c, i) ==
    IF i >= NumEventSlots THEN [c EXCEPT !.ret = i]
    ELSE LET e == c.rx.data[i + 1]
         IN IF e.magic # ST_TP_EVENT_MAGIC THEN [c EXCEPT !.ret = i]
            ELSE IF e.evt_id = "ERROR_REPORT"
            THEN Bind(st_tp_handle_error_report(c, e, i), LAMBDA c1 :
                    IF c1.ret # 0 THEN [c1 EXCEPT !.ret = -c1.ret]
                    ELSE ScanEvents(c1, i + 1))
            ELSE ScanEvents(c, i + 1)

\* st_tp_read_all_events(): c.ret is the number of events, or -error.
\* c.evs keeps the values the calls of a handler returned.
st_tp_read_all_events(c) ==
    LET c1 == spi_transaction(c, Cmd("READ_ALL_EVENTS", "", 0))
        c2 == IF c1.ret # EC_SUCCESS THEN [c1 EXCEPT !.ret = -c1.ret]
              ELSE ScanEvents(c1, 0)
    IN [c2 EXCEPT !.evs = Append(@, c2.ret)]

\* c.hdrs keeps the headers the handler read.
st_tp_read_host_buffer_header(c) ==
    LET c1 == spi_transaction(c, Cmd("READ_SPI_HOST_BUFFER", "header", 0))
    IN IF c1.ret = EC_SUCCESS THEN [c1 EXCEPT !.hdrs = Append(@, c1.rx.data)]
       ELSE c1

---------------------------------------------------------------------------
(* HID report builder *)

\* A parser that gives a slot to an event that is not a finger.
st_tp_parse_finger_any_type(report, event, i) ==
    IF i >= MaxFingers THEN [report |-> report, i |-> i]
    ELSE [report |-> report, i |-> i + 1]

\* st_tp_parse_finger(): [report, i] after the event was looked at.
st_tp_parse_finger(report, event, i) ==
    IF i >= MaxFingers THEN [report |-> report, i |-> i]
    ELSE IF event.touch_type = "INVALID" THEN [report |-> report, i |-> i]
    ELSE IF event.evt_id \in {"ENTER_POINTER", "MOTION_POINTER"}
    THEN [report |->
            [report EXCEPT !.finger[i] =
                [tip |-> 1, inrange |-> 1, id |-> event.touch_id,
                 pressure |-> event.z * 4,
                 width |-> BitOr(event.minor, event.minor_high * 16) * 64,
                 height |-> BitOr(event.major, event.major_high * 16) * 64,
                 x |-> CONFIG_USB_HID_TOUCHPAD_LOGICAL_MAX_X - event.x,
                 y |-> CONFIG_USB_HID_TOUCHPAD_LOGICAL_MAX_Y - event.y]],
          i |-> i + 1]
    ELSE IF event.evt_id = "LEAVE_POINTER"
    THEN [report |-> [report EXCEPT !.finger[i].id = event.touch_id],
          i |-> i + 1]
    ELSE [report |-> report, i |-> i + 1]

\* The event loop of st_tp_write_hid_report over events[i .. num_events-1].
RECURSIVE ParseEvents(_, _, _, _)
ParseEvents(events, num_events, i, acc) ==
    IF i >= num_events THEN acc
    ELSE LET e == events[i + 1]
         IN Bind(IF e.evt_id \in {"ENTER_POINTER", "MOTION_POINTER",
                                  "LEAVE_POINTER"}
                 THEN st_tp_parse_finger(acc.report, e, acc.i)
                 ELSE acc,
                 LAMBDA a : ParseEvents(events, num_events, i + 1, a))

\* The report given twice.
set_touchpad_report_twice(c, report) ==
    [c EXCEPT !.reports = Append(Append(@, report), report)]

set_touchpad_report(c, report) == [c EXCEPT !.reports = Append(@, report)]

\* The level kept as the controller sends it.
DomeSwitchBitRaw(dome_switch_level) ==
    IF dome_switch_level # 0 THEN SYSTEM_STATE_DOME_SWITCH_LEVEL ELSE 0

\* dome_switch_level from device is inverted: 0 => pressed, 1 => released.
DomeSwitchBit(dome_switch_level) ==
    IF dome_switch_level # 0 THEN 0 ELSE SYSTEM_STATE_DOME_SWITCH_LEVEL

st_tp_write_hid_report(c) ==
    LET c1 == st_tp_read_host_buffer_header(c)
    IN IF c1.ret # EC_SUCCESS THEN c1
       ELSE
       LET changed == c1.rx.data.domeswitch_chg
           c2 == IF changed
                 THEN [c1 EXCEPT !.ss = set_bits(@,
                          DomeSwitchBit(c1.rx.data.dome_switch_level),
                          SYSTEM_STATE_DOME_SWITCH_LEVEL)]
                 ELSE c1
           c3 == st_tp_read_all_events(c2)
       IN IF c3.ret < 0 THEN [c3 EXCEPT !.ret = -c3.ret]
          ELSE
          LET p == ParseEvents(c3.rx.data, c3.ret, 0,
                               [report |-> EmptyReport, i |-> 0])
              num_finger == p.i
          IN IF num_finger = 0 /\ ~changed THEN [c3 EXCEPT !.ret = 0]
             ELSE [set_touchpad_report(c3,
                      [p.report EXCEPT
                          !.button = Bool(BitAnd(c3.ss,
                                          SYSTEM_STATE_DOME_SWITCH_LEVEL)),
                          !.count = num_finger,
                          !.timestamp =
                              c3.ts \div USB_HID_TOUCHPAD_TIMESTAMP_UNIT])
                   EXCEPT !.ret = 0]

---------------------------------------------------------------------------
(* Host data and system info *)

\* retry = 100 in st_tp_reset, scaled down
RESET_RETRY == 3
LOAD_RETRY == 5

st_tp_read_host_data_memory(c, what) ==
    spi_transaction(c, Cmd("READ_HOST_DATA_MEMORY", what, 0))

\* rx_buf.data_header: the header at the start of the receive buffer.
\* When the buffer holds something else its bytes read as some header.
DataHeader(c) ==
    IF c.rx.kind = "data_header" THEN c.rx.data
    ELSE IF c.rx.kind = "system_info"
    THEN [magic_ok |-> c.rx.data.magic_ok, mem_id |-> c.rx.data.mem_id,
          count |-> c.rx.data.count]
    ELSE c.env.stale

\* A step of st_tp_load_host_data, kept in c.load: the header rx_buf holds
\* after a read ("header", "poll") with the result of the read, or the
\* value returned ("return"); at is the number of entries of c.tx so far.
LoadStep(c, kind, mem_id) ==
    [c EXCEPT !.load = Append(@, [kind |-> kind, mem_id |-> mem_id,
                                  h |-> DataHeader(c), ret |-> c.ret,
                                  at |-> Len(c.tx)])]

\* The test of one poll: the data is there once the header has the magic,
\* the id asked for and another count.
PollDoneAnyCount(h, mem_id, count) == h.magic_ok /\ h.mem_id = mem_id

PollDone(h, mem_id, count) ==
    h.magic_ok /\ h.mem_id = mem_id /\ h.count # count

RECURSIVE PollHostData(_, _, _, _)
PollHostData(c, mem_id, count, retry) ==
    IF retry = 0 THEN [c EXCEPT !.ret = EC_ERROR_TIMEOUT]
    ELSE Bind(LoadStep(st_tp_read_host_data_memory(c, "header"), "poll",
                       mem_id), LAMBDA c1 :
            IF PollDone(DataHeader(c1), mem_id, count)
            THEN [c1 EXCEPT !.ret = EC_SUCCESS]
            ELSE PollHostData(Note(c1, "msleep"), mem_id, count, retry - 1))

\* The test for data that is loaded already
AlreadyLoadedWithMagic(h, mem_id) == h.magic_ok /\ h.mem_id = mem_id

AlreadyLoaded(h, mem_id) == h.mem_id = mem_id

\* st_tp_load_host_data() after its first read of the header
LoadOrPoll(c1, mem_id) ==
    IF AlreadyLoaded(DataHeader(c1), mem_id)
    THEN [c1 EXCEPT !.ret = EC_SUCCESS]
    ELSE Bind(spi_transaction(c1, Cmd("WRITE_SYSTEM_COMMAND", "0x06",
                                      mem_id)), LAMBDA c2 :
            IF c2.ret # EC_SUCCESS THEN c2
            ELSE PollHostData(c2, mem_id, DataHeader(c1).count, LOAD_RETRY))

st_tp_load_host_data(c, mem_id) ==
    LoadStep(Bind(LoadStep(st_tp_read_host_data_memory(c, "header"),
                           "header", mem_id),
                  LAMBDA c1 : LoadOrPoll(c1, mem_id)),
             "return", mem_id)

st_tp_read_system_info(c, reload) ==
    LET c1 == IF reload THEN st_tp_load_host_data(c, ST_TP_MEM_ID_SYSTEM_INFO)
              ELSE [c EXCEPT !.ret = EC_SUCCESS]
    IN IF c1.ret # EC_SUCCESS THEN c1
       ELSE LET c2 == st_tp_read_host_data_memory(c1, "system_info")
            IN IF c2.ret # EC_SUCCESS THEN c2
               ELSE LET c3 == [c2 EXCEPT !.info = c2.rx.data]
                    IN IF ~c3.info.magic_ok
                          \/ c3.info.mem_id # ST_TP_MEM_ID_SYSTEM_INFO
                       THEN [c3 EXCEPT !.ret = EC_ERROR_UNKNOWN]
                       ELSE [c3 EXCEPT !.log = Append(@,
                                [line |-> "system_info", slot |-> 0,
                                 type |-> "", info |-> <<>>])]

\* touchpad_get_info(): the system info is loaded again and read; default
\* values are reported when that fails.  The result is sizeof(*tp), which
\* is kept as EC_SUCCESS here.
touchpad_get_info(c) ==
    Bind(LoadStep(st_tp_read_system_info(c, TRUE), "info",
                  ST_TP_MEM_ID_SYSTEM_INFO), LAMBDA c1 :
        [c1 EXCEPT !.tp = IF c1.ret # EC_SUCCESS
                          THEN [filled |-> TRUE, default |-> TRUE,
                                fw_version |-> 0]
                          ELSE [filled |-> TRUE, default |-> FALSE,
                                fw_version |-> c1.info.release_info],
                   !.ret = EC_SUCCESS])

\* command_touchpad_st(): "version"
command_version(c) ==
    [LoadStep(st_tp_read_system_info(c, TRUE), "info",
              ST_TP_MEM_ID_SYSTEM_INFO) EXCEPT !.ret = EC_SUCCESS]

---------------------------------------------------------------------------
(* Reset and initialization *)

\* Whether events[0 .. num_events-1] hold an event that satisfies Want.
HasEvent(c, num_events, Want(_)) ==
    \E i \in 1..num_events : Want(c.rx.data[i])

IsControllerReady(e) == e.evt_id = "CONTROLLER_READY"

RECURSIVE PollReady(_, _)
PollReady(c, retry) ==
    IF retry = 0
    THEN [c EXCEPT !.log = Append(@, [line |-> "Timeout waiting for controller ready.",
                                      slot |-> 0, type |-> "", info |-> <<>>]),
                   !.ret = EC_ERROR_TIMEOUT]
    ELSE Bind(st_tp_read_all_events(c), LAMBDA c1 :
            IF c1.ret < 0 THEN [c1 EXCEPT !.ret = -c1.ret]
            ELSE IF HasEvent(c1, c1.ret, IsControllerReady)
            THEN [c1 EXCEPT !.ret = 0]
            ELSE PollReady(Note(c1, "msleep"), retry - 1))

\* board_touchpad_reset(): the controller restarts with its defaults.
board_touchpad_reset(c) ==
    [Note(c, "board_touchpad_reset") EXCEPT !.dev = DevDefault]

st_tp_reset(c) == PollReady(board_touchpad_reset(c), RESET_RETRY)

st_tp_init(c) ==
    LET c1 == st_tp_reset(c)
    IN IF c1.ret # 0 THEN c1
       ELSE st_tp_start_scan(
                [st_tp_read_system_info(c1, FALSE) EXCEPT !.ss = 0])

IsFullInitEcho(e) ==
    /\ e.evt_id = "STATUS_REPORT"
    /\ e.report_type = "CMD_ECHO"
    /\ e.info = <<"WRITE_SYSTEM_COMMAND", "0x00", "0x03">>

\* st_tp_check_command_echo() for the full-initialization command
st_tp_check_command_echo(c) ==
    LET c1 == st_tp_read_all_events(c)
    IN IF c1.ret < 0 THEN [c1 EXCEPT !.ret = -c1.ret]
       ELSE IF HasEvent(c1, c1.ret, IsFullInitEcho) THEN [c1 EXCEPT !.ret = 0]
       ELSE [c1 EXCEPT !.ret = -EC_ERROR_BUSY]

\* A handler that reinitializes also while the echo is awaited.
st_tp_full_initialize_end_unechoed(c) ==
    LET c1 == st_tp_check_command_echo(c)
    IN IF c1.ret \in {EC_SUCCESS, -EC_ERROR_BUSY} THEN st_tp_init(c1)
       ELSE c1

st_tp_full_initialize_end(c) ==
    LET c1 == st_tp_check_command_echo(c)
    IN IF c1.ret = EC_SUCCESS
       THEN st_tp_init(CPrints(c1, "Full panel initialization completed."))
       ELSE IF c1.ret = -EC_ERROR_BUSY
       THEN [c1 EXCEPT !.dfr = @ \cup {"st_tp_full_initialize_end"}]
       ELSE [c1 EXCEPT !.log = Append(@,
                [line |-> "Full Panel initialization failed", slot |-> 0,
                 type |-> "", info |-> <<>>])]

st_tp_full_initialize_start(c) ==
    LET c1 == st_tp_reset(st_tp_stop_scan(c))
    IN IF c1.ret # 0 THEN c1
       ELSE [spi_transaction(c1, Cmd("WRITE_SYSTEM_COMMAND", "0x00", 3))
                EXCEPT !.dfr = @ \cup {"st_tp_full_initialize_end"}]

---------------------------------------------------------------------------
(* Flash programmer *)

\* A step of the programmer, kept in c.flash in the order of the steps.
FlashStep(c, kind, from, len) ==
    [c EXCEPT !.flash = Append(@, [kind |-> kind, from |-> from, len |-> len,
                                   ret |-> c.ret])]

\* write_hwreg_cmd32(): address and data are kept as written in the source
write_hwreg_cmd32(c, address_data) ==
    spi_transaction(c, Cmd("WRITE_HW_REG", address_data, 0))

write_hwreg_cmd8(c, address, data) ==
    spi_transaction(c, Cmd("WRITE_HW_REG", address, data))

\* The loop of wait_for_flash_ready; retry is the value "retry--" tests.
RECURSIVE PollFlash(_, _, _)
PollFlash(c, type, retry) ==
    IF retry = 0 THEN [c EXCEPT !.ret = EC_ERROR_TIMEOUT]
    ELSE Bind(spi_transaction(c, Cmd("READ_HW_REG", type, 0)), LAMBDA c1 :
            IF c1.ret = EC_SUCCESS /\ ~c1.rx.data
            THEN c1
            ELSE PollFlash(Note(c1, "msleep"), type, retry - 1))

wait_for_flash_ready_before_last(c, type) ==
    LET c1 == PollFlash(c, type, FLASH_RETRY)
    IN IF c1.n - c.n = FLASH_RETRY
       THEN [c1 EXCEPT !.ret = EC_ERROR_TIMEOUT] ELSE c1

wait_for_flash_ready(c, type) == PollFlash(c, type, FLASH_RETRY)

erase_flash(c) ==
    LET c1 == write_hwreg_cmd32(c, "20000128:FFFFFF83")
    IN IF c1.ret # EC_SUCCESS THEN c1
       ELSE LET c2 == write_hwreg_cmd8(c1, "2000006B", 0)
            IN IF c2.ret # EC_SUCCESS THEN c2
               ELSE LET c3 == write_hwreg_cmd8(c2, "2000006A", 160)
                    IN IF c3.ret # EC_SUCCESS THEN c3
                       ELSE wait_for_flash_ready(c3, "6A")

\* st_tp_prepare_for_update(): no result is looked at
st_tp_prepare_for_update(c) ==
    LET c1 == write_hwreg_cmd8(c, "20000024", 1)
        c2 == write_hwreg_cmd8(c1, "20000025", 32)
        c3 == write_hwreg_cmd8(c2, "200000DE", 3)
        c4 == erase_flash(c3)
    IN FlashStep([c4 EXCEPT !.ret = EC_SUCCESS], "prepare", 0, 0)

st_tp_start_flash_dma(c) ==
    LET c1 == write_hwreg_cmd8(c, "20000071", 192)
    IN IF c1.ret # EC_SUCCESS THEN c1
       ELSE wait_for_flash_ready(c1, "71")

\* st_tp_write_one_chunk(): head is the image offset of the first byte
st_tp_write_one_chunk(c, head, addr, chunk_size) ==
    LET c1 == spi_transaction(c, Cmd("WRITE_HW_REG", "chunk", chunk_size))
    IN FlashStep(c1, "chunk", head, chunk_size)

\* A chunk size that does not look at what is left.
ChunkSizeFull(head, tail) == ST_TP_DMA_CHUNK_SIZE

\* chunk_size = MIN(ST_TP_DMA_CHUNK_SIZE, tail - head)
ChunkSize(head, tail) == Min(ST_TP_DMA_CHUNK_SIZE, tail - head)

\* The inner loop of st_tp_write_flash: chunks go to the flash buffer.
\* The result is [c, head, size]; size is flash_buffer_size.
RECURSIVE FillBuffer(_, _, _, _)
FillBuffer(c, head, tail, flash_buffer_size) ==
    IF flash_buffer_size >= ST_TP_FLASH_BUFFER_SIZE
    THEN [c |-> c, head |-> head, size |-> flash_buffer_size]
    ELSE LET chunk_size == ChunkSize(head, tail)
         IN Bind(st_tp_write_one_chunk(c, head,
                                       FlashBufferAddr + flash_buffer_size,
                                       chunk_size),
                 LAMBDA c1 :
                    IF c1.ret # EC_SUCCESS
                    THEN [c |-> c1, head |-> head, size |-> flash_buffer_size]
                    ELSE IF head + chunk_size >= tail
                    THEN [c |-> c1, head |-> head + chunk_size,
                          size |-> flash_buffer_size + chunk_size]
                    ELSE FillBuffer(c1, head + chunk_size, tail,
                                    flash_buffer_size + chunk_size))

\* The DMA configuration: the word offset and the word count less one,
\* each in two bytes
ConfigureDma(c, offset, flash_buffer_size) ==
    LET words == flash_buffer_size \div 4 - 1
        c1 == spi_transaction(c, Cmd("WRITE_HW_REG", "dma_config", 0))
    IN FlashStep(c1, "dma_config", offset % 65536, (words + 65536) % 65536)

\* The outer loop of st_tp_write_flash; offset counts words.
RECURSIVE WriteGroups(_, _, _, _)
WriteGroups(c, offset, head, tail) ==
    IF head >= tail THEN [c EXCEPT !.ret = EC_SUCCESS]
    ELSE Bind(FillBuffer(c, head, tail, 0), LAMBDA f :
            IF f.c.ret # EC_SUCCESS THEN f.c
            ELSE Bind(ConfigureDma(f.c, offset, f.size), LAMBDA c1 :
                    IF c1.ret # EC_SUCCESS THEN c1
                    ELSE Bind(st_tp_start_flash_dma(c1), LAMBDA c2 :
                            IF c2.ret # EC_SUCCESS THEN c2
                            ELSE WriteGroups(
                                     c2,
                                     offset + ST_TP_FLASH_BUFFER_SIZE \div 4,
                                     f.head, tail))))

\* st_tp_write_flash(): the data are the image bytes offset .. offset+size-1
st_tp_write_flash(c, offset, size) ==
    LET c1 == WriteGroups(c, offset \div 4, offset, offset + size)
    IN FlashStep(c1, "write_flash", offset, size)

\* The test for the CX section
InCxSection(offset) ==
    offset >= ST_TP_FLASH_OFFSET_CX /\ offset < ST_TP_FLASH_OFFSET_CONFIG

\* A test that also takes a block that ends past the image.
ImageEndOrPast(offset, size) == offset + size >= CONFIG_TOUCHPAD_VIRTUAL_SIZE

\* offset + size == CONFIG_TOUCHPAD_VIRTUAL_SIZE: the block ends the image
ImageEnd(offset, size) == offset + size = CONFIG_TOUCHPAD_VIRTUAL_SIZE

\* touchpad_update_write()
touchpad_update_write(c, offset, size) ==
    LET c1 == IF offset = 0
              THEN st_tp_prepare_for_update(st_tp_stop_scan(c))
              ELSE [c EXCEPT !.ret = EC_SUCCESS]
    IN IF c1.ret # EC_SUCCESS THEN c1
       ELSE IF offset % ST_TP_DMA_CHUNK_SIZE # 0
       THEN [c1 EXCEPT !.ret = EC_ERROR_INVAL]
       ELSE IF InCxSection(offset) THEN [c1 EXCEPT !.ret = EC_SUCCESS]
       ELSE LET c2 == st_tp_write_flash(c1, offset, size)
            IN IF c2.ret # EC_SUCCESS THEN c2
               ELSE IF ImageEnd(offset, size)
               THEN [st_tp_full_initialize_start(CPrints(c2, "End update"))
                        EXCEPT !.ret = EC_SUCCESS]
               ELSE [c2 EXCEPT !.ret = EC_SUCCESS]

\* The command byte of a calibration; touchpad_st.h declares it.
ST_TP_DEBUG_CMD_CALIBRATE == 0

\* A handler that does not look at the size of its parameter.
touchpad_debug_any_size(c, param, param_size) ==
    IF param = ST_TP_DEBUG_CMD_CALIBRATE
    THEN [st_tp_full_initialize_start(c) EXCEPT !.ret = EC_SUCCESS]
    ELSE [c EXCEPT !.ret = EC_RES_INVALID_PARAM]

\* touchpad_debug(): param is the first byte of the parameter
touchpad_debug(c, param, param_size) ==
    IF param_size # 1 THEN [c EXCEPT !.ret = EC_RES_INVALID_PARAM]
    ELSE IF param = ST_TP_DEBUG_CMD_CALIBRATE
    THEN [st_tp_full_initialize_start(c) EXCEPT !.ret = EC_SUCCESS]
    ELSE [c EXCEPT !.ret = EC_RES_INVALID_PARAM]

---------------------------------------------------------------------------
(* Heat-map double buffer *)

\* (int16_t) of the 16 bits frame[i * 2] | (frame[i * 2 + 1] << 8) of a raw
\* pixel: two's complement.
Int16(w) == IF w >= 32768 THEN w - 65536 ELSE w

\* A scaling that lets a negative sample through the division.
ScalePixelUnsigned(v) ==
    LET v2 == Min((v + 65536) % 65536 \div (2 ^ (BITS_PER_PIXEL - 8)), 255)
    IN IF v2 < ST_TP_HEAT_MAP_THRESHOLD THEN 0 ELSE v2

\* One pixel of st_tp_read_frame (BYTES_PER_PIXEL == 2): v is the int16_t
\* read from the two bytes of the raw frame.
ScalePixel(v) ==
    LET v1 == Max(0, v)
        v2 == Min(v1 \div (2 ^ (BITS_PER_PIXEL - 8)), 255)
    IN IF v2 < ST_TP_HEAT_MAP_THRESHOLD THEN 0 ELSE v2

RECURSIVE OrAll(_, _)
OrAll(f, i) == IF i = 0 THEN 0 ELSE BitOr(f[i], OrAll(f, i - 1))

EmptyPacket == [flags |-> 0, frame |-> [i \in 1..NumPixels |-> 0]]

\* get_heat_map_addr(): -1 for an unknown version
get_heat_map_addr(c) ==
    IF c.info.release_info >= 3 THEN 288
    ELSE IF c.info.release_info = 1 THEN 32
    ELSE -1

\* print_frame(): prints the frame at usb_buffer_index every 37th index
print_frame(c) ==
    IF c.usb = c.spi THEN c
    ELSE IF c.usb % 37 = 0
    THEN [c EXCEPT !.log = Append(@, [line |-> "frame", slot |-> c.usb % 2,
                                      type |-> "", info |-> <<>>])]
    ELSE c

\* st_tp_read_frame(): the frame goes, scaled, to usb_packet[spi & 1];
\* -1 for an empty frame.  With an unknown heat map address nothing is
\* read and ret still holds EC_SUCCESS.
st_tp_read_frame(c) ==
    LET heat_map_addr == get_heat_map_addr(c)
    IN IF heat_map_addr < 0 THEN [c EXCEPT !.ret = EC_SUCCESS]
       ELSE
       LET c1 == spi_transaction(c, Cmd("READ_SPI_HOST_BUFFER", "heat_map",
                                        heat_map_addr))
       IN IF c1.ret # EC_SUCCESS THEN c1
          ELSE LET dest == [i \in 1..NumPixels |->
                               ScalePixel(Int16(c1.rx.data[i]))]
                   max_value == OrAll(dest, NumPixels)
                   c2 == [c1 EXCEPT !.pkt[c1.spi % 2].frame = dest,
                                    !.wrote = Append(@, c1.spi % 2)]
               IN [c2 EXCEPT !.ret = IF max_value = 0 THEN -1 ELSE EC_SUCCESS]

\* A gate that lets every capture through.
CanCaptureAlways(c) == TRUE

\* spi_buffer_index - usb_buffer_index <= 1: a slot is free
CanCapture(c) == IndexSub(c.spi, c.usb) <= 1

\* The capture attempted by st_tp_read_report: c.tried tells that it was
\* attempted, c.cap is what st_tp_read_frame returned.
Capture(c) ==
    Bind(st_tp_read_frame([c EXCEPT !.tried = TRUE]),
         LAMBDA r : [r EXCEPT !.cap = r.ret])

\* A branch that advances the write index whatever the capture returned.
ReadReportHeatMapAnyResult(c) ==
    LET c1 == IF CanCapture(c)
              THEN [Capture(c) EXCEPT !.spi = IndexInc(@)]
              ELSE c
    IN IF c1.spi > c1.usb THEN Schedule(c1, "st_tp_interrupt_send") ELSE c1

\* The heat-map branch of st_tp_read_report
ReadReportHeatMap(c) ==
    LET c1 == IF CanCapture(c)
              THEN LET r == Capture(c)
                   IN IF r.ret = EC_SUCCESS
                      THEN LET r1 == [r EXCEPT !.spi = IndexInc(@)]
                           IN IF BitAnd(r1.ss, SYSTEM_STATE_DEBUG_MODE) # 0
                              THEN [print_frame(r1) EXCEPT
                                       !.usb = IndexInc(@)]
                              ELSE r1
                      ELSE r
              ELSE c
    IN IF c1.spi > c1.usb THEN Schedule(c1, "st_tp_interrupt_send") ELSE c1

\* st_tp_read_report()
\* A report that returns the error of its step without acknowledging.
st_tp_read_report_unless_failed(c) ==
    Bind(IF BitAnd(c.ss, SYSTEM_STATE_ENABLE_HEAT_MAP) # 0
         THEN ReadReportHeatMap(c)
         ELSE st_tp_write_hid_report(c),
         LAMBDA c1 : IF c1.ret # EC_SUCCESS THEN c1 ELSE st_tp_send_ack(c1))

st_tp_read_report(c) ==
    st_tp_send_ack(
        IF BitAnd(c.ss, SYSTEM_STATE_ENABLE_HEAT_MAP) # 0
        THEN ReadReportHeatMap(c)
        ELSE st_tp_write_hid_report(c))

\* st_tp_read_report() from its start to print_frame(): the capture went
\* well, spi_buffer_index++ is done and SYSTEM_STATE_DEBUG_MODE was found
\* set. The task is left in print_frame (c.tpc), where a task of higher
\* priority can run. A report that does not come to print_frame runs to
\* its end.
ReadReportToPrint(c) ==
    IF BitAnd(c.ss, SYSTEM_STATE_ENABLE_HEAT_MAP) # 0 /\ CanCapture(c)
    THEN Bind(Capture(c), LAMBDA r :
            IF r.ret = EC_SUCCESS
               /\ BitAnd(r.ss, SYSTEM_STATE_DEBUG_MODE) # 0
            THEN [print_frame([r EXCEPT !.spi = IndexInc(@)])
                     EXCEPT !.tpc = "print"]
            ELSE st_tp_read_report(c))
    ELSE st_tp_read_report(c)

\* st_tp_read_report() from the return of print_frame() to its end
ReadReportFromPrint(c) ==
    Bind([c EXCEPT !.usb = IndexInc(@), !.tpc = "run"], LAMBDA c1 :
        st_tp_send_ack(
            IF c1.spi > c1.usb THEN Schedule(c1, "st_tp_interrupt_send")
            ELSE c1))

\* usb_isochronous_write_buffer(): the bytes written, or a negative error.
\* The packet takes USB_ISO_PACKET_SIZE bytes.
usb_isochronous_write_buffer(c, n, offset, which) ==
    IF c.env.usb = which THEN -1
    ELSE Min(n, USB_ISO_PACKET_SIZE - offset)

\* heatmap_send_packet()
heatmap_send_packet(c) ==
    LET slot == c.usb % 2
        flags == IF c.off = 0 THEN 1 ELSE 0
        num_byte_available == PacketSize - c.off
        c0 == [c EXCEPT !.hflags = 0]
    IN IF num_byte_available <= 0 THEN [c0 EXCEPT !.ret = 0]
       ELSE
       LET c1 == [c0 EXCEPT !.hflags = flags]
           r1 == usb_isochronous_write_buffer(c1, PacketHeaderSize, 0, "header")
       IN IF r1 # PacketHeaderSize THEN [c1 EXCEPT !.ret = -1]
          ELSE
          LET sent == [index |-> c1.hidx, flags |-> c1.hflags]
              c2 == [c1 EXCEPT !.hidx = (@ + 1) % (2 ^ HeaderIndexBits)]
              r2 == usb_isochronous_write_buffer(c2, num_byte_available, r1,
                                                 "data")
          IN IF r2 < 0
             THEN [c2 EXCEPT !.log = Append(@, [line |-> "heatmap_send_packet",
                                                slot |-> slot, type |-> "",
                                                info |-> <<>>]),
                             !.ret = r2]
             ELSE
             LET c3 == [c2 EXCEPT !.iso = Append(@,
                           [header |-> sent, slot |-> slot, from |-> c2.off,
                            len |-> r2, usb |-> c2.usb, spi |-> c2.spi]),
                                  !.off = @ + r2]
             IN IF c3.off = PacketSize
                THEN [c3 EXCEPT !.off = 0, !.usb = IndexInc(@), !.ret = 0]
                ELSE [c3 EXCEPT !.ret = 0]

\* The body of heatmap_task's loop after task_wait_event(-1) returned;
\* c.hpc is "retry" when the task is left inside the retry loop.
heatmap_task(c) ==
    IF BitAnd(c.ss, SYSTEM_STATE_DEBUG_MODE) # 0 THEN c
    ELSE IF c.usb = c.spi THEN c
    ELSE LET c1 == heatmap_send_packet(c)
         IN [c1 EXCEPT !.hpc = IF c1.ret # 0 THEN "retry" ELSE "wait"]

\* The retry loop of heatmap_task after task_wait_event(100) returned
heatmap_retry(c) ==
    LET c1 == heatmap_send_packet(c)
    IN [c1 EXCEPT !.hpc = IF c1.ret # 0 THEN "retry" ELSE "wait"]

\* st_tp_interrupt_send(): the report on the interrupt endpoint
st_tp_interrupt_send(c) ==
    [c EXCEPT !.intr = Append(@, [frame_available |-> c.usb < c.spi]),
              !.eptx = TRUE]

\* st_tp_interrupt_tx(): the interrupt endpoint finished a transfer
st_tp_interrupt_tx(c) ==
    LET c1 == [c EXCEPT !.eptx = FALSE]
    IN IF c1.usb < c1.spi THEN Schedule(c1, "st_tp_interrupt_send") ELSE c1

---------------------------------------------------------------------------
(* Handlers *)

\* Whether the first st_tp_update_system_state call of a handler (calls
\* now) comes right after a call with the same arguments (the last of
\* before, made by the handler before it) with system_state as that call
\* left it; and how that earlier call ended.
Repeats(before, now) ==
    IF before # <<>> /\ now # <<>>
       /\ now[1].target = before[Len(before)].target
       /\ now[1].mask = before[Len(before)].mask
       /\ now[1].pre = before[Len(before)].post
    THEN [same |-> TRUE, ok |-> before[Len(before)].ret = EC_SUCCESS,
          ncmds |-> Len(before[Len(before)].cmds)]
    ELSE [same |-> FALSE, ok |-> FALSE, ncmds |-> 0]

\* The handler ran to the context c: its effects become the new state.
Finish(name, arg, ctx) ==
    \E c \in {ctx} :
        /\ system_state' = c.ss
        /\ dev' = c.dev
        /\ gpio_int' = c.irq
        /\ deferred' = c.dfr
        /\ rx_buf' = c.rx
        /\ system_info' = c.info
        /\ reports' = c.reports
        /\ log' = c.log
        /\ tp_wake' = c.wake
        /\ irq_ts' = c.ts
        /\ tx' = c.tx
        /\ upd' = c.upd
        /\ rep' = Repeats(upd, c.upd)
        /\ ret' = c.ret
        /\ op' = [name |-> name, arg |-> arg, pre |-> system_state]
        /\ spi_buffer_index' = c.spi
        /\ usb_buffer_index' = c.usb
        /\ usb_packet' = c.pkt
        /\ transmit_report_offset' = c.off
        /\ packet_header' = [index |-> c.hidx, flags |-> c.hflags]
        /\ hm_wake' = c.hmw
        /\ hm_pc' = c.hpc
        /\ tp_pc' = c.tpc
        /\ ep_tx' = c.eptx
        /\ req' = c.req
        /\ written' = c.wr
        /\ out' = [tried |-> c.tried, wrote |-> c.wrote, iso |-> c.iso,
                   intr |-> c.intr, evs |-> c.evs, hdrs |-> c.hdrs,
                   flash |-> c.flash, load |-> c.load, tp |-> c.tp,
                   cap |-> c.cap, gpio |-> c.gpio,
                   spi |-> spi_buffer_index, usb |-> usb_buffer_index]

\* A single failing transaction among the first MaxFail, or none.
OneFailure ==
    {[n \in 1..MaxFail |-> IF n = k THEN e ELSE EC_SUCCESS] :
        k \in 0..MaxFail, e \in SpiErrors}

ReadyBatch == Batch(<<ControllerReady>>)

\* Answers of the controller to the event reads of a reset: never ready,
\* ready at once, ready at the second read.
ResetEvents == {<<>>, <<ReadyBatch>>, <<NoEvents, ReadyBatch>>}

\* Answers to the event reads of a command-echo check and of the reset
\* that follows the echo.
EchoEvents ==
    {<<>>, <<Batch(<<EchoOther>>)>>, <<Batch(<<ErrorReport, EchoFullInit>>)>>,
     <<Batch(<<EchoFullInit>>), ReadyBatch>>}

FailEnvs(O) == {FailEnv(f) : f \in O}

InitEnvs(O) ==
    {Env(f, ev, NoHeader, info) :
        f \in O, ev \in ResetEvents, info \in {GoodInfo, BadInfo}}

ResetEnvs(O) == {Env(f, ev, NoHeader, NoInfo) : f \in O, ev \in ResetEvents}

EchoEnvs(O) ==
    {Env(f, ev, NoHeader, info) :
        f \in O, ev \in EchoEvents, info \in {GoodInfo, BadInfo}}

\* touchpad_task: st_tp_init() before the event loop
TaskStart(E) ==
    /\ ~tp_started
    /\ tp_started' = TRUE
    /\ \E env \in E : Finish("st_tp_init", 0, st_tp_init(Ctx(env)))

\* touchpad_task: TASK_EVENT_POWERON
PowerOn(E) ==
    /\ tp_started
    /\ UNCHANGED tp_started
    /\ \E env \in E :
          Finish("st_tp_start_scan", 0, st_tp_start_scan(Ctx(env)))

\* touchpad_task: TASK_EVENT_POWEROFF
PowerOff(E) ==
    /\ tp_started
    /\ UNCHANGED tp_started
    /\ \E env \in E :
          Finish("st_tp_stop_scan", 0, st_tp_stop_scan(Ctx(env)))

\* st_tp_usb_set_interface (interrupt context): only schedules the call
UsbSetInterface(A) ==
    /\ UNCHANGED tp_started
    /\ \E alt \in A :
          Finish("st_tp_usb_set_interface", alt,
                 Schedule(Ctx(FailEnv(<<>>)),
                          IF alt = 1 THEN "st_tp_enable_heat_map"
                          ELSE "st_tp_disable_heat_map"))

\* deferred call st_tp_enable_heat_map
DeferredEnableHeatMap(E) ==
    /\ "st_tp_enable_heat_map" \in deferred
    /\ UNCHANGED tp_started
    /\ \E env \in E :
          Finish("st_tp_enable_heat_map", 0,
                 st_tp_enable_heat_map(
                     Unschedule(Ctx(env), "st_tp_enable_heat_map")))

\* deferred call st_tp_disable_heat_map
DeferredDisableHeatMap(E) ==
    /\ "st_tp_disable_heat_map" \in deferred
    /\ UNCHANGED tp_started
    /\ \E env \in E :
          Finish("st_tp_disable_heat_map", 0,
                 st_tp_disable_heat_map(
                     Unschedule(Ctx(env), "st_tp_disable_heat_map")))

\* deferred call st_tp_full_initialize_end
DeferredFullInitializeEnd(E) ==
    /\ "st_tp_full_initialize_end" \in deferred
    /\ UNCHANGED tp_started
    /\ \E env \in E :
          Finish("st_tp_full_initialize_end", 0,
                 st_tp_full_initialize_end(
                     Unschedule(Ctx(env), "st_tp_full_initialize_end")))

\* command_touchpad_st(): "enable"
ConsoleEnable ==
    /\ UNCHANGED tp_started
    /\ LET c == Ctx(FailEnv(<<>>))
       IN Finish("console enable", 0,
                 Schedule([c EXCEPT !.ss = set_bits(@, SYSTEM_STATE_DEBUG_MODE,
                                                    SYSTEM_STATE_DEBUG_MODE)],
                          "st_tp_enable_heat_map"))

\* command_touchpad_st(): "disable"
ConsoleDisable ==
    /\ UNCHANGED tp_started
    /\ LET c == Ctx(FailEnv(<<>>))
       IN Finish("console disable", 0,
                 Schedule([c EXCEPT !.ss = set_bits(@, 0,
                                                    SYSTEM_STATE_DEBUG_MODE)],
                          "st_tp_disable_heat_map"))

\* command_touchpad_st(): "calibrate", and touchpad_debug() with
\* ST_TP_DEBUG_CMD_CALIBRATE: st_tp_full_initialize_start()
Calibrate(E) ==
    /\ UNCHANGED tp_started
    /\ \E env \in E :
          Finish("st_tp_full_initialize_start", 0,
                 [st_tp_full_initialize_start(Ctx(env))
                     EXCEPT !.ret = EC_SUCCESS])

\* A handler that acknowledges the host buffer in the interrupt.
touchpad_interrupt_and_ack(c, now) ==
    st_tp_send_ack([c EXCEPT !.ts = now, !.wake = TRUE])

\* touchpad_interrupt(): GPIO_TOUCHPAD_INT fell; now is the clock
touchpad_interrupt(c, now) == [c EXCEPT !.ts = now, !.wake = TRUE]

\* Values of __hw_clock_source_read() at an interrupt
Timestamps == {0, 250}

TouchpadInterrupt(T) ==
    /\ gpio_int
    /\ UNCHANGED tp_started
    /\ \E now \in T :
          Finish("touchpad_interrupt", now,
                 touchpad_interrupt(Ctx(FailEnv(<<>>)), now))

\* touchpad_task: TASK_EVENT_WAKE, one turn of the loop over
\* st_tp_read_report().  The controller holds GPIO_TOUCHPAD_INT low until
\* the host buffer is acknowledged, so the loop goes on after a failed
\* acknowledgement and ends after a successful one.
ReadReport(E) ==
    /\ tp_started
    /\ tp_wake
    /\ tp_pc = "run"
    /\ UNCHANGED tp_started
    /\ \E env \in E :
          LET c == st_tp_read_report(Ctx(env))
          IN Finish("st_tp_read_report", 0,
                    [c EXCEPT !.wake = (c.ret # EC_SUCCESS)])

\* The same turn of the loop, preempted in print_frame() when the report
\* comes to it ...
ReadReportBegin(E) ==
    /\ tp_started
    /\ tp_wake
    /\ tp_pc = "run"
    /\ UNCHANGED tp_started
    /\ \E env \in E :
          Finish("st_tp_read_report", 0,
                 Bind(ReadReportToPrint(Ctx(env)), LAMBDA c :
                     [c EXCEPT !.wake = (c.tpc = "print"
                                         \/ c.ret # EC_SUCCESS)]))

\* ... and resumed
ReadReportEnd(E) ==
    /\ tp_pc = "print"
    /\ UNCHANGED tp_started
    /\ \E env \in E :
          Finish("st_tp_read_report resumed", 0,
                 Bind(ReadReportFromPrint(Ctx(env)), LAMBDA c :
                     [c EXCEPT !.wake = (c.ret # EC_SUCCESS)]))

\* st_tp_usb_tx_callback (interrupt context): wakes the heat map task
UsbTxCallback ==
    /\ UNCHANGED tp_started
    /\ Finish("st_tp_usb_tx_callback", 0,
              [Ctx(FailEnv(<<>>)) EXCEPT !.hmw = TRUE])

\* heatmap_task: woken from task_wait_event(-1)
HeatmapTask(E) ==
    /\ hm_pc = "wait"
    /\ hm_wake
    /\ UNCHANGED tp_started
    /\ \E env \in E :
          Finish("heatmap_task", 0,
                 heatmap_task([Ctx(env) EXCEPT !.hmw = FALSE]))

\* heatmap_task: back from task_wait_event(100) in the retry loop
HeatmapRetry(E) ==
    /\ hm_pc = "retry"
    /\ UNCHANGED tp_started
    /\ \E env \in E :
          Finish("heatmap_task retry", 0,
                 heatmap_retry([Ctx(env) EXCEPT !.hmw = FALSE]))

\* deferred call st_tp_interrupt_send
DeferredInterruptSend ==
    /\ "st_tp_interrupt_send" \in deferred
    /\ UNCHANGED tp_started
    /\ Finish("st_tp_interrupt_send", 0,
              st_tp_interrupt_send(
                  Unschedule(Ctx(FailEnv(<<>>)), "st_tp_interrupt_send")))

\* st_tp_interrupt_tx (interrupt context): the report was transmitted
InterruptTx ==
    /\ ep_tx
    /\ UNCHANGED tp_started
    /\ Finish("st_tp_interrupt_tx", 0,
              st_tp_interrupt_tx(Ctx(FailEnv(<<>>))))

\* wait_for_flash_ready() on its own, as erase_flash and
\* st_tp_start_flash_dma call it; the argument kept is the number of reads
\* for which the controller shows the flash busy.
WaitForFlashReady(T, E) ==
    /\ UNCHANGED tp_started
    /\ \E type \in T, env \in E :
          Finish("wait_for_flash_ready", env.busy,
                 wait_for_flash_ready(Ctx(env), type))

\* touchpad_get_info(): the host asks for the touchpad's identity
TouchpadGetInfo(E) ==
    /\ UNCHANGED tp_started
    /\ \E env \in E :
          Finish("touchpad_get_info", 0, touchpad_get_info(Ctx(env)))

\* command_touchpad_st(): "version"
ConsoleVersion(E) ==
    /\ UNCHANGED tp_started
    /\ \E env \in E :
          Finish("console version", 0, command_version(Ctx(env)))

\* No firmware update request is waiting.
NoReq == [offset |-> -1, size |-> 0]

\* The host sends a block of the firmware image: touchpad_update_write
\* is to be called with these arguments.
HostUpdateRequest(R) ==
    /\ req = NoReq
    /\ UNCHANGED tp_started
    /\ \E r \in R :
          Finish("update request", 0, [Ctx(FailEnv(<<>>)) EXCEPT !.req = r])

\* The request was served; the host has not read the response yet.
Served == [offset |-> -2, size |-> 0]

\* What the calls cover after the call for the block r ended in c: a
\* call at offset 0 starts the image again, a block that begins within
\* what is covered extends it, a failed call covers nothing.
Cover(c, r) ==
    [c EXCEPT !.wr = IF r.offset = 0
                     THEN IF c.ret = EC_SUCCESS THEN r.size ELSE 0
                     ELSE IF c.ret = EC_SUCCESS /\ r.offset <= @
                     THEN Max(@, r.offset + r.size)
                     ELSE @]

\* touchpad_update_write() for the request of the host
UpdateWrite(E) ==
    /\ req \notin {NoReq, Served}
    /\ UNCHANGED tp_started
    /\ \E env \in E :
          Finish("touchpad_update_write", req,
                 Cover(touchpad_update_write(
                           [Ctx(env) EXCEPT !.req = Served],
                           req.offset, req.size), req))

\* Parameters of a debug command: the command byte and the size
DebugParams ==
    {[param |-> p, param_size |-> n] :
        p \in {ST_TP_DEBUG_CMD_CALIBRATE, ST_TP_DEBUG_CMD_CALIBRATE + 1},
        n \in 0..2}

\* touchpad_debug() for a debug command of the host
TouchpadDebug(P, E) ==
    /\ UNCHANGED tp_started
    /\ \E p \in P, env \in E :
          Finish("touchpad_debug", p,
                 touchpad_debug(Ctx(env), p.param, p.param_size))

\* The host reads the response to its request.
HostUpdateResponse ==
    /\ req = Served
    /\ UNCHANGED tp_started
    /\ Finish("update response", 0, [Ctx(FailEnv(<<>>)) EXCEPT !.req = NoReq])

\* Where a handler runs: the touchpad task, the heat map task, the task
\* that runs the deferred calls, the console, the task of the host
\* commands (identity, debug command, update), or an interrupt.
ExecContext(name) ==
    CASE name \in {"st_tp_init", "st_tp_start_scan", "st_tp_stop_scan",
                   "st_tp_read_report", "st_tp_read_report resumed"}
            -> "touchpad task"
      [] name \in {"heatmap_task", "heatmap_task retry"} -> "heatmap task"
      [] name \in {"st_tp_enable_heat_map", "st_tp_disable_heat_map",
                   "st_tp_full_initialize_end", "st_tp_interrupt_send"}
            -> "deferred"
      [] name \in {"console enable", "console disable", "console version",
                   "st_tp_full_initialize_start"} -> "console"
      [] name \in {"touchpad_get_info", "touchpad_debug",
                   "touchpad_update_write"} -> "host command"
      [] name \in {"touchpad_interrupt", "st_tp_usb_tx_callback",
                   "st_tp_usb_set_interface", "st_tp_interrupt_tx"}
            -> "interrupt"
      [] OTHER -> "host"

NoOut ==
    [tried |-> FALSE, wrote |-> <<>>, iso |-> <<>>, intr |-> <<>>,
     evs |-> <<>>, hdrs |-> <<>>, flash |-> <<>>, load |-> <<>>,
     tp |-> NoTp, cap |-> EC_SUCCESS, gpio |-> <<>>, spi |-> 0, usb |-> 0]

InitState ==
    /\ system_state = 0
    /\ dev = DevDefault
    /\ gpio_int = FALSE
    /\ deferred = {}
    /\ rx_buf = [kind |-> "none", data |-> <<>>]
    /\ system_info = NoInfo
    /\ irq_ts = 0
    /\ tp_wake = FALSE
    /\ tp_started = FALSE
    /\ reports = <<>>
    /\ log = <<>>
    /\ tx = <<>>
    /\ upd = <<>>
    /\ rep = [same |-> FALSE, ok |-> FALSE, ncmds |-> 0]
    /\ ret = EC_SUCCESS
    /\ op = [name |-> "boot", arg |-> 0, pre |-> 0]
    /\ spi_buffer_index = 0
    /\ usb_buffer_index = 0
    /\ usb_packet = [i \in {0, 1} |-> EmptyPacket]
    /\ transmit_report_offset = 0
    /\ packet_header = [index |-> 0, flags |-> 0]
    /\ hm_wake = FALSE
    /\ hm_pc = "wait"
    /\ tp_pc = "run"
    /\ ep_tx = FALSE
    /\ out = NoOut
    /\ req = NoReq
    /\ written = 0

\* The answers to the handlers of each specification
StateStartEnvs == InitEnvs(Oracles)

StateModeEnvs == FailEnvs(Oracles)

\* The state machine and its callers, every transaction free to fail.
NextState ==
    \/ TaskStart(StateStartEnvs)
    \/ PowerOn(StateModeEnvs)
    \/ PowerOff(StateModeEnvs)
    \/ UsbSetInterface({0, 1})
    \/ DeferredEnableHeatMap(StateModeEnvs)
    \/ DeferredDisableHeatMap(StateModeEnvs)
    \/ ConsoleEnable
    \/ ConsoleDisable

SpecState == InitState /\ [][NextState]_vars

InitStartEnvs == InitEnvs(OneFailure)

InitModeEnvs == FailEnvs(OneFailure)

InitEchoEnvs == EchoEnvs(OneFailure)

InitResetEnvs == ResetEnvs(OneFailure)

\* Scan control and calibration (full initialization), one transaction of
\* a handler free to fail.
NextInit ==
    \/ TaskStart(InitStartEnvs)
    \/ PowerOn(InitModeEnvs)
    \/ PowerOff(InitModeEnvs)
    \/ DeferredFullInitializeEnd(InitEchoEnvs)
    \/ Calibrate(InitResetEnvs)

SpecInit == InitState /\ [][NextInit]_vars

\* No transaction fails.
Quiet == {<<>>}

\* The controller comes up at once with a good system info.
StartEnvs(O) == {Env(f, <<ReadyBatch>>, NoHeader, GoodInfo) : f \in O}

\* What an event slot can hold in a batch the controller sends.
SlotKinds ==
    {EnterPointer, MotionPointer, LeavePointer, NotAFinger, ErrorReport,
     InvalidEvent}

\* What the last slot can hold.
LastSlotKinds == {MotionPointer, ErrorReport, InvalidEvent}

HidBatches ==
    {b \in [1..NumEventSlots -> SlotKinds] :
        b[NumEventSlots] \in LastSlotKinds}

Headers ==
    {NoHeader, [domeswitch_chg |-> TRUE, dome_switch_level |-> 0],
     [domeswitch_chg |-> TRUE, dome_switch_level |-> 1]}

\* A transaction of the first k fails, or none.
FailUpTo(k) ==
    {[n \in 1..k |-> IF n = j THEN EC_ERROR_UNKNOWN ELSE EC_SUCCESS] :
        j \in 0..k}

\* Batches read when a transaction of the report fails
FailBatches ==
    {Batch(<<EnterPointer, LeavePointer>>), Batch(<<ErrorReport>>), NoEvents}

\* A report of any batch with no failure, and a report of a few batches
\* with one of its transactions failing.
HidEnvs(O) ==
    {Env(<<>>, <<b>>, h, NoInfo) : b \in HidBatches, h \in Headers}
    \cup {Env(f, <<b>>, h, NoInfo) :
            f \in O, b \in FailBatches, h \in Headers}

QuietStartEnvs == StartEnvs(Quiet)

QuietEnvs == FailEnvs(Quiet)

HidReportEnvs == HidEnvs(OneFailure)

\* The touch report path: interrupts and reports, one transaction of a
\* report free to fail.
NextHid ==
    \/ TaskStart(QuietStartEnvs)
    \/ PowerOn(QuietEnvs)
    \/ TouchpadInterrupt(Timestamps)
    \/ ReadReport(HidReportEnvs)

SpecHid == InitState /\ [][NextHid]_vars

\* Raw frames the controller sends: an empty one and one with a touch.
RawFrames == {[i \in 1..NumPixels |-> v * i] : v \in {0, 40}}

HeatEnvs(O) ==
    {[Env(f, <<NoEvents>>, NoHeader, NoInfo) EXCEPT !.frame = fr] :
        f \in O, fr \in RawFrames}

\* The USB accepts the packet, or fails at the header or at the data.
UsbEnvs ==
    {[FailEnv(<<>>) EXCEPT !.usb = u] : u \in {"none", "header", "data"}}

HeatReportEnvs == HeatEnvs(FailUpTo(2))

\* The heat map path: mode switches, frame captures and USB transfers, one
\* transaction of a capture free to fail.
NextHeat ==
    \/ TaskStart(QuietStartEnvs)
    \/ UsbSetInterface({0, 1})
    \/ DeferredEnableHeatMap(QuietEnvs)
    \/ DeferredDisableHeatMap(QuietEnvs)
    \/ ConsoleEnable
    \/ ConsoleDisable
    \/ TouchpadInterrupt({0})
    \/ ReadReport(HeatReportEnvs)
    \/ UsbTxCallback
    \/ HeatmapTask(UsbEnvs)
    \/ HeatmapRetry(UsbEnvs)

SpecHeat == InitState /\ [][NextHeat]_vars

\* Offsets and sizes of the blocks the host sends, in half chunks
HalfChunk == ST_TP_DMA_CHUNK_SIZE \div 2

UpdateRequests ==
    {[offset |-> i * HalfChunk, size |-> j * HalfChunk] :
        i \in 0..(CONFIG_TOUCHPAD_VIRTUAL_SIZE \div HalfChunk),
        j \in 0..(2 * MaxWriteChunks)}

\* Answers during an update: the flash is busy for the first polls, the
\* controller is ready at once after a reset.
FlashEnvs(O) ==
    {[Env(f, <<ReadyBatch>>, NoHeader, NoInfo) EXCEPT !.busy = b] :
        f \in O, b \in 0..FLASH_RETRY}

FlashWriteEnvs == FlashEnvs(FailUpTo(MaxFlashFail))

\* The firmware update: blocks in any order, one transaction of a call
\* free to fail.
NextFlash ==
    \/ TaskStart(QuietStartEnvs)
    \/ HostUpdateRequest(UpdateRequests)
    \/ UpdateWrite(FlashWriteEnvs)
    \/ HostUpdateResponse

SpecFlash == InitState /\ [][NextFlash]_vars

\* Headers the host data memory can show
Loaded(count) ==
    [magic_ok |-> TRUE, mem_id |-> ST_TP_MEM_ID_SYSTEM_INFO, count |-> count]
OtherData == [magic_ok |-> TRUE, mem_id |-> 0, count |-> 0]
NoMagic(count) == [Loaded(count) EXCEPT !.magic_ok = FALSE]

\* The header is h for the first k reads after the first and shows the
\* system info with a new count from then on.
Reloading(first, h, k) ==
    <<first>> \o [i \in 1..(LOAD_RETRY + 1) |->
                    IF i <= k THEN h ELSE Loaded(1)]

\* How many reads the controller takes to load: none, one, as many as
\* the driver polls, one more.
LoadTimes == {0, 1, LOAD_RETRY - 1, LOAD_RETRY}

\* Answers while the system info is loaded: what the header shows first,
\* what it shows while the controller loads and for how many reads.
LoadEnvs(K) ==
    {[Env(<<>>, <<>>, NoHeader, info) EXCEPT
         !.hdata = Reloading(first, h, k)] :
        info \in {GoodInfo, BadInfo},
        first \in {Loaded(0), NoMagic(0), OtherData, NoHostData},
        h \in {Loaded(0), NoMagic(1), OtherData},
        k \in K}

\* The same with transactions that fail; stale is what rx_buf held before.
LoadFailEnvs(O) ==
    {[Env(f, <<>>, NoHeader, GoodInfo) EXCEPT
         !.hdata = Reloading(first, OtherData, k), !.stale = stale] :
        f \in O, first \in {Loaded(0), OtherData},
        k \in {1, LOAD_RETRY}, stale \in {NoHostData, Loaded(0)}}

\* What the controller answers to each of the host commands
HostStartEnvs == StartEnvs(Quiet)

HostInfoEnvs ==
    LoadEnvs(LoadTimes) \cup LoadFailEnvs(FailUpTo(LOAD_RETRY + 3))

HostConsoleEnvs == LoadFailEnvs(Oracles)

\* Blocks of the host: every offset that is not a multiple of the chunk
\* size, and the first and the last chunk of the image
HostBlocks ==
    {r \in UpdateRequests :
        /\ r.size \in {0, ST_TP_DMA_CHUNK_SIZE}
        /\ \/ r.offset % ST_TP_DMA_CHUNK_SIZE # 0
           \/ r.offset = 0
           \/ r.offset + r.size = CONFIG_TOUCHPAD_VIRTUAL_SIZE}

HostFlashEnvs == FlashEnvs(FailUpTo(1))

HostDebugEnvs == ResetEnvs(FailUpTo(1))

\* The host commands: the identity and the console
NextHost ==
    \/ TaskStart(HostStartEnvs)
    \/ TouchpadGetInfo(HostInfoEnvs)
    \/ ConsoleVersion(HostConsoleEnvs)

SpecHost == InitState /\ [][NextHost]_vars

\* The debug command and blocks of the firmware update, well formed or not
NextDebug ==
    \/ TaskStart(HostStartEnvs)
    \/ TouchpadDebug(DebugParams, HostDebugEnvs)
    \/ HostUpdateRequest(HostBlocks)
    \/ UpdateWrite(HostFlashEnvs)
    \/ HostUpdateResponse

SpecDebug == InitState /\ [][NextDebug]_vars

\* Captures that succeed, and USB transfers that are accepted
NotifyStartEnvs == StartEnvs(Quiet)

NotifyModeEnvs == FailEnvs(Quiet)

NotifyHeatEnvs == HeatEnvs(Quiet)

NotifyUsbEnvs == {[FailEnv(<<>>) EXCEPT !.usb = "none"]}

\* The heat map with its notification to the host: frames are captured and
\* sent for long enough that the write index wraps, and the interrupt
\* endpoint reports the frames that wait.
NextNotify ==
    \/ TaskStart(NotifyStartEnvs)
    \/ UsbSetInterface({1})
    \/ DeferredEnableHeatMap(NotifyModeEnvs)
    \/ TouchpadInterrupt({0})
    \/ ReadReport(NotifyHeatEnvs)
    \/ UsbTxCallback
    \/ HeatmapTask(NotifyUsbEnvs)
    \/ DeferredInterruptSend
    \/ InterruptTx

\* The status registers polled: of the erase and of the DMA
FlashTypes == {"6A", "71"}

\* Any transaction of a wait may fail, and the flash is busy for no read,
\* for some, or for more reads than the wait makes.
PollEnvs ==
    {[FailEnv(f) EXCEPT !.busy = b] :
        f \in Oracles, b \in 0..(FLASH_RETRY + 1)}

\* The wait for the flash, applied to every answer of the controller
NextPoll ==
    \/ TaskStart(NotifyStartEnvs)
    \/ WaitForFlashReady(FlashTypes, PollEnvs)

SpecPoll == InitState /\ [][NextPoll]_vars

SpecNotify == InitState /\ [][NextNotify]_vars

\* Any transaction of a mode switch may fail
MaskModeEnvs == FailEnvs(Oracles)

\* Touch reports that carry the level of the dome switch
MaskReportEnvs == {Env(<<>>, <<NoEvents>>, h, NoInfo) : h \in Headers}

\* The mode switches with the dome switch pressed or released
NextMask ==
    \/ TaskStart(NotifyStartEnvs)
    \/ PowerOn(MaskModeEnvs)
    \/ PowerOff(MaskModeEnvs)
    \/ UsbSetInterface({0, 1})
    \/ DeferredEnableHeatMap(MaskModeEnvs)
    \/ DeferredDisableHeatMap(MaskModeEnvs)
    \/ TouchpadInterrupt({0})
    \/ ReadReport(MaskReportEnvs)

SpecMask == InitState /\ [][NextMask]_vars

EchoResetEnvs == ResetEnvs(Quiet)

EchoPollEnvs == EchoEnvs(Quiet)

\* Full initialization and the wait for its echo. The hook task runs a
\* deferred call once its delay has passed, so a pending
\* st_tp_full_initialize_end is run in the end.
NextEcho ==
    \/ TaskStart(NotifyStartEnvs)
    \/ PowerOn(NotifyModeEnvs)
    \/ PowerOff(NotifyModeEnvs)
    \/ Calibrate(EchoResetEnvs)
    \/ DeferredFullInitializeEnd(EchoPollEnvs)

SpecEcho ==
    /\ InitState
    /\ [][NextEcho]_vars
    /\ WF_vars(DeferredFullInitializeEnd(EchoPollEnvs))

\* Touch reports with the dome switch pressed, released or unchanged, with
\* and without a finger, one transaction of a report free to fail
ButtonReportEnvs ==
    {Env(f, <<b>>, h, NoInfo) :
        f \in FailUpTo(2), b \in {NoEvents, Batch(<<EnterPointer>>)},
        h \in Headers}

\* Touch reports between calibrations of the panel
NextButton ==
    \/ TaskStart(NotifyStartEnvs)
    \/ TouchpadInterrupt({0})
    \/ ReadReport(ButtonReportEnvs)
    \/ Calibrate(EchoResetEnvs)
    \/ DeferredFullInitializeEnd(EchoPollEnvs)

SpecButton == InitState /\ [][NextButton]_vars

\* Raw pixels as the controller sends them, 16 bits each: zero, below and
\* at the threshold after scaling, at and past the 8-bit limit, and
\* negative samples.
RawPixels ==
    {0, 2 * ST_TP_HEAT_MAP_THRESHOLD - 1, 2 * ST_TP_HEAT_MAP_THRESHOLD,
     510, 512, 32768, 65535}

\* Raw frames: each raw pixel at each place, beside an empty pixel, a
\* pixel past the limit and a pixel below the threshold
RawPixelFrames ==
    {fr \in [1..NumPixels -> RawPixels] :
        \E i \in 1..NumPixels :
            fr[i] \in {0, 512, 2 * ST_TP_HEAT_MAP_THRESHOLD - 1}}

\* A capture of each raw frame, and one whose read fails
FrameEnvs ==
    {[Env(f, <<NoEvents>>, NoHeader, NoInfo) EXCEPT !.frame = fr] :
        f \in FailUpTo(1), fr \in RawPixelFrames}

\* Frame captures of every raw frame into the two slots, until both hold
\* a frame
NextFrame ==
    \/ TaskStart(NotifyStartEnvs)
    \/ UsbSetInterface({1})
    \/ DeferredEnableHeatMap(NotifyModeEnvs)
    \/ TouchpadInterrupt({0})
    \/ ReadReport(FrameEnvs)

SpecFrame == InitState /\ [][NextFrame]_vars

\* Captures of a frame with a touch
RaceHeatEnvs ==
    {[Env(<<>>, <<NoEvents>>, NoHeader, NoInfo) EXCEPT
         !.frame = [i \in 1..NumPixels |-> 40 * i]]}

\* The USB accepts the packet or fails at the data.
RaceUsbEnvs == {[FailEnv(<<>>) EXCEPT !.usb = u] : u \in {"none", "data"}}

\* The heat map with the touchpad task preempted in print_frame(): the
\* console and the heat map task run between spi_buffer_index++ and
\* usb_buffer_index++ of a capture in debug mode.
NextRace ==
    \/ TaskStart(NotifyStartEnvs)
    \/ UsbSetInterface({1})
    \/ DeferredEnableHeatMap(NotifyModeEnvs)
    \/ DeferredDisableHeatMap(NotifyModeEnvs)
    \/ ConsoleEnable
    \/ ConsoleDisable
    \/ TouchpadInterrupt({0})
    \/ ReadReportBegin(RaceHeatEnvs)
    \/ ReadReportEnd(NotifyModeEnvs)
    \/ UsbTxCallback
    \/ HeatmapTask(RaceUsbEnvs)
    \/ HeatmapRetry(RaceUsbEnvs)

SpecRace == InitState /\ [][NextRace]_vars

\* "offset: should be address between 0 to 1M": the range of the offsets
FlashRange == 1048576

\* Offsets over the range, aligned with ST_TP_DMA_CHUNK_SIZE: the start of
\* the image, and the last flash buffer before and the first one after each
\* multiple of 128K.
DmaOffsets ==
    {0, ST_TP_DMA_CHUNK_SIZE}
        \cup {q * 131072 + d : q \in 1..7, d \in {0 - ST_TP_FLASH_BUFFER_SIZE, 0}}
        \cup {FlashRange - ST_TP_FLASH_BUFFER_SIZE}

\* Blocks of whole chunks at these offsets
DmaRequests ==
    {[offset |-> o, size |-> n * ST_TP_DMA_CHUNK_SIZE] :
        o \in DmaOffsets, n \in 1..MaxWriteChunks}

DmaEnvs == FlashEnvs(FailUpTo(1))

\* The firmware update with offsets over the documented range.
NextDma ==
    \/ TaskStart(QuietStartEnvs)
    \/ HostUpdateRequest(DmaRequests)
    \/ UpdateWrite(DmaEnvs)
    \/ HostUpdateResponse

SpecDma == InitState /\ [][NextDma]_vars

---------------------------------------------------------------------------
(* Properties of st_tp_update_system_state *)

HasBit(s, bit) == BitAnd(s, bit) # 0

\* new_state of a logged call after "copy reserved bits"
NewState(u) ==
    [b \in {SYSTEM_STATE_DEBUG_MODE, SYSTEM_STATE_ENABLE_HEAT_MAP,
            SYSTEM_STATE_ENABLE_DOME_SWITCH, SYSTEM_STATE_ACTIVE_MODE,
            SYSTEM_STATE_DOME_SWITCH_LEVEL} |->
        IF HasBit(u.mask, b) THEN HasBit(u.target, b) ELSE HasBit(u.pre, b)]

FeatureBits == {SYSTEM_STATE_ENABLE_HEAT_MAP, SYSTEM_STATE_ENABLE_DOME_SWITCH}
ActiveBits == {SYSTEM_STATE_ACTIVE_MODE}

IsFeatureCmd(m) == m.cmd = "WRITE_FEATURE_SELECT"
IsActiveCmd(m) == m.cmd = "WRITE_SCAN_MODE_SELECT" /\ m.sub = "ACTIVE"
IsLockedCmd(m) == m.cmd = "WRITE_SCAN_MODE_SELECT" /\ m.sub = "LOCKED"

Kept(u, bits) == \A b \in bits : HasBit(u.post, b) = HasBit(u.pre, b)
Taken(u, bits) == \A b \in bits : HasBit(u.post, b) = NewState(u)[b]

\* The bits of a flag group of a call, given the result of its command.
GroupRule(u, IsCmd(_), bits) ==
    /\ \A i \in 1..Len(u.cmds) :
          IsCmd(u.cmds[i]) =>
              IF u.cmds[i].ret = EC_SUCCESS THEN Taken(u, bits)
              ELSE Kept(u, bits)
    /\ (\A i \in 1..Len(u.cmds) : ~IsCmd(u.cmds[i])) => Kept(u, bits)

FailsAtOnce(u) ==
    /\ \A i \in 1..(Len(u.cmds) - 1) : u.cmds[i].ret = EC_SUCCESS
    /\ u.ret = (IF u.cmds = <<>> THEN EC_SUCCESS ELSE u.cmds[Len(u.cmds)].ret)

\* C8: a failing transaction ends the call with that failure and no
\* further command; the failing group's bits keep their value, the groups
\* whose command succeeded before keep the new one, and a group's bits
\* change only after its command succeeded.
C8_FailureAbortsWithoutRollback ==
    \A k \in 1..Len(upd) :
        /\ FailsAtOnce(upd[k])
        /\ GroupRule(upd[k], IsFeatureCmd, FeatureBits)
        /\ GroupRule(upd[k], IsActiveCmd, ActiveBits)

\* A call whose feature-select command succeeded and changed the group,
\* and whose active-mode command then failed.
C8_Witness ==
    \E k \in 1..Len(upd) :
        /\ Len(upd[k].cmds) = 2
        /\ upd[k].ret # EC_SUCCESS
        /\ IsFeatureCmd(upd[k].cmds[1]) /\ IsActiveCmd(upd[k].cmds[2])
        /\ ~Kept(upd[k], FeatureBits)

C4_EnableIsFollowedByLocked ==
    \A k \in 1..Len(upd) :
        LET u == upd[k]
            was == HasBit(u.pre, SYSTEM_STATE_ENABLE_HEAT_MAP)
            is == HasBit(u.post, SYSTEM_STATE_ENABLE_HEAT_MAP)
        IN /\ (~was /\ is) =>
                \E i, j \in 1..Len(u.cmds) :
                    i < j /\ IsFeatureCmd(u.cmds[i]) /\ IsLockedCmd(u.cmds[j])
           /\ (was /\ ~is) => \A i \in 1..Len(u.cmds) : ~IsLockedCmd(u.cmds[i])

\* C7: the heat-map, dome-switch and active bits of system_state are the
\* configuration the controller last acknowledged.
C7_StateIsDeviceState ==
    /\ HasBit(system_state, SYSTEM_STATE_ENABLE_HEAT_MAP) = dev.heat
    /\ HasBit(system_state, SYSTEM_STATE_ENABLE_DOME_SWITCH) = dev.dome
    /\ HasBit(system_state, SYSTEM_STATE_ACTIVE_MODE) = dev.active

---------------------------------------------------------------------------
(* Properties of the event reader and the touch report *)

IsReadReport == op.name = "st_tp_read_report"
\* The report took the touch path: heat map mode was off.
IsHidReport ==
    IsReadReport /\ ~HasBit(op.pre, SYSTEM_STATE_ENABLE_HEAT_MAP)

TxOf(cmd) == SelectSeq(tx, LAMBDA m : m.cmd = cmd)
HeaderRead == SelectSeq(tx, LAMBDA m : m.cmd = "READ_SPI_HOST_BUFFER")
EventsRead == TxOf("READ_ALL_EVENTS")
HeaderOk == HeaderRead # <<>> /\ HeaderRead[1].ret = EC_SUCCESS
EventsOk == EventsRead # <<>> /\ EventsRead[1].ret = EC_SUCCESS

\* Index (0-based) of the first record of a batch with a bad magic byte
FirstBadMagic(b) ==
    IF \A i \in 1..NumEventSlots : b[i].magic = ST_TP_EVENT_MAGIC
    THEN NumEventSlots
    ELSE CHOOSE k \in 0..(NumEventSlots - 1) :
            /\ b[k + 1].magic # ST_TP_EVENT_MAGIC
            /\ \A i \in 1..k : b[i].magic = ST_TP_EVENT_MAGIC

\* Slots whose record went to the error-report handler
HandledSlots ==
    {log[i].slot : i \in {j \in 1..Len(log) : log[j].line = "Touchpad error"}}

\* C2: after a successful read st_tp_read_all_events returns the index of
\* the first record with a bad magic byte (the number of slots if none)
\* and hands to the error-report handler the error reports before that
\* index and no record at or after it; after a failed read it returns the
\* negated error and handles no record.
C2_ReaderStopsAtFirstBadMagic ==
    (IsHidReport /\ EventsRead # <<>>) =>
        IF EventsOk
        THEN /\ rx_buf.kind = "events"
             /\ out.evs = <<FirstBadMagic(rx_buf.data)>>
             /\ HandledSlots =
                    {i \in 0..(FirstBadMagic(rx_buf.data) - 1) :
                        rx_buf.data[i + 1].evt_id = "ERROR_REPORT"}
        ELSE /\ out.evs = <<0 - EventsRead[1].ret>>
             /\ out.evs[1] < 0
             /\ HandledSlots = {}

\* A batch with an error report, then a bad magic byte, then a valid error
\* report that is not handled.
C2_Witness ==
    /\ IsHidReport /\ EventsOk
    /\ out.evs = <<1>>
    /\ rx_buf.data[1].evt_id = "ERROR_REPORT"
    /\ rx_buf.data[NumEventSlots].magic = ST_TP_EVENT_MAGIC
    /\ rx_buf.data[NumEventSlots].evt_id = "ERROR_REPORT"
    /\ HandledSlots = {0}

PointerIds == {"ENTER_POINTER", "MOTION_POINTER", "LEAVE_POINTER"}
IsPointer(e) == e.evt_id \in PointerIds
IsAcceptedFinger(e) == IsPointer(e) /\ e.touch_type # "INVALID"

\* The events the reader counted, in array order
CountedEvents ==
    IF EventsOk THEN [i \in 1..out.evs[1] |-> rx_buf.data[i]] ELSE <<>>

\* The finger slot an accepted event is to fill
SlotOf(e) ==
    IF e.evt_id = "LEAVE_POINTER" THEN [NoFinger EXCEPT !.id = e.touch_id]
    ELSE [tip |-> 1, inrange |-> 1, id |-> e.touch_id,
          x |-> CONFIG_USB_HID_TOUCHPAD_LOGICAL_MAX_X - e.x,
          y |-> CONFIG_USB_HID_TOUCHPAD_LOGICAL_MAX_Y - e.y]

Agrees(slot, want) == \A f \in DOMAIN want : slot[f] = want[f]

ScenarioBatch == Batch(<<EnterPointer, LeavePointer>>)

\* C9: the j-th accepted finger-pointer event fills finger[j], ENTER and
\* MOTION with tip, inrange, id and the flipped x and y, LEAVE with the id
\* only; count is the number of filled slots, at most the size of the
\* finger array, the other slots stay zero; and the batch [ENTER(100, 50,
\* 10), LEAVE(id 3), bad magic] gives count 2 with those two slots.
C9_FingersInEventOrder ==
    /\ (IsHidReport /\ reports # <<>>) =>
          LET r == reports[1]
              acc == SelectSeq(CountedEvents, IsAcceptedFinger)
          IN /\ EventsOk
             /\ DOMAIN r.finger = 0..(MaxFingers - 1)
             /\ r.count = Min(Len(acc), MaxFingers)
             /\ \A j \in 0..(MaxFingers - 1) :
                   IF j < Len(acc) THEN Agrees(r.finger[j], SlotOf(acc[j + 1]))
                   ELSE r.finger[j] = NoFinger
    /\ (IsHidReport /\ HeaderOk /\ EventsOk /\ rx_buf.data = ScenarioBatch) =>
          /\ Len(reports) = 1
          /\ reports[1].count = 2
          /\ reports[1].finger[0].tip = 1
          /\ reports[1].finger[0].x = CONFIG_USB_HID_TOUCHPAD_LOGICAL_MAX_X - 100
          /\ reports[1].finger[1] = [NoFinger EXCEPT !.id = 3]

\* The report of the batch [ENTER(100, 50, 10), LEAVE(id 3), bad magic].
C9_Witness ==
    /\ IsHidReport /\ EventsOk
    /\ rx_buf.data = ScenarioBatch
    /\ out.evs = <<2>>
    /\ Len(reports) = 1
    /\ reports[1].count = 2

DomeSwitchChanged == HeaderOk /\ out.hdrs[1].domeswitch_chg

\* What st_tp_write_hid_report does given that something changed or not.
ReportRule(something) ==
    /\ ~something => (reports = <<>> /\ system_state = op.pre)
    /\ (something /\ HeaderOk /\ EventsOk) => Len(reports) = 1

\* C10 as stated: no dome-switch change and no finger-pointer event give
\* no report and leave system_state alone; either of them, with both reads
\* successful, gives exactly one report.
C10_ReportIffPointerEvent ==
    IsHidReport =>
        ReportRule(DomeSwitchChanged
                   \/ \E i \in 1..Len(CountedEvents) :
                         IsPointer(CountedEvents[i]))

\* C10 amended: ... a finger-pointer event whose touch type is not
\* ST_TP_TOUCH_TYPE_INVALID.
C10_ReportIffAcceptedFinger ==
    IsHidReport =>
        ReportRule(DomeSwitchChanged
                   \/ \E i \in 1..Len(CountedEvents) :
                         IsAcceptedFinger(CountedEvents[i]))

\* Both reads succeed, the only pointer event is not a finger, the dome
\* switch did not change: no report.
C10_Witness ==
    /\ IsHidReport /\ HeaderOk /\ EventsOk
    /\ ~DomeSwitchChanged
    /\ \E i \in 1..Len(CountedEvents) : IsPointer(CountedEvents[i])
    /\ reports = <<>>

---------------------------------------------------------------------------
(* Properties of the heat-map double buffer *)

\* The report took the heat map path.
IsHeatReport == IsReadReport /\ HasBit(op.pre, SYSTEM_STATE_ENABLE_HEAT_MAP)

\* Frames captured and not yet transmitted, in uint32_t arithmetic
Gap == IndexSub(spi_buffer_index, usb_buffer_index)
GapBefore == IndexSub(out.spi, out.usb)

---------------------------------------------------------------------------
(* Properties of the flash programmer *)

IsUpdateWrite == op.name = "touchpad_update_write"

\* Positions in out.flash of the steps of a kind
StepsOf(kind) == {i \in 1..Len(out.flash) : out.flash[i].kind = kind}
ChunkSteps == StepsOf("chunk")
ConfigSteps == StepsOf("dma_config")

\* Bytes carried by the chunk transactions at the positions S
RECURSIVE BytesIn(_)
BytesIn(S) ==
    IF S = {} THEN 0
    ELSE LET i == CHOOSE j \in S : TRUE
         IN out.flash[i].len + BytesIn(S \ {i})

\* Position of the DMA configuration before position p, 0 if there is none
ConfigBefore(p) ==
    IF \E q \in ConfigSteps : q < p
    THEN CHOOSE q \in ConfigSteps :
            q < p /\ \A q2 \in ConfigSteps : q2 < p => q2 <= q
    ELSE 0

\* A byte of the image in the CX section
IsProtected(b) ==
    b >= ST_TP_FLASH_OFFSET_CX /\ b < ST_TP_FLASH_OFFSET_CONFIG

\* C5: no chunk transaction carries a byte of the image in the range
\* [ST_TP_FLASH_OFFSET_CX, ST_TP_FLASH_OFFSET_CONFIG), and a call whose
\* offset is in the range returns success without sending a chunk.
C5_ProtectedRangeNeverSent ==
    IsUpdateWrite =>
        /\ \A i \in ChunkSteps :
              \A b \in out.flash[i].from ..
                        (out.flash[i].from + out.flash[i].len - 1) :
                  ~IsProtected(b)
        /\ IsProtected(op.arg.offset) =>
              (ret = EC_SUCCESS /\ ChunkSteps = {})

\* C6: a chunk carries at most ST_TP_DMA_CHUNK_SIZE bytes; the chunks
\* since the DMA configuration before sum at a DMA configuration to
\* ST_TP_FLASH_BUFFER_SIZE, or to the bytes that remained for the last
\* group; the chunks of a call that wrote everything sum to its size.
C6_ChunksFillTheBuffer ==
    IsUpdateWrite =>
        /\ \A i \in ChunkSteps :
              /\ out.flash[i].len >= 1
              /\ out.flash[i].len <= ST_TP_DMA_CHUNK_SIZE
              /\ out.flash[i].from =
                    op.arg.offset + BytesIn({j \in ChunkSteps : j < i})
        /\ \A p \in ConfigSteps :
              LET group == {i \in ChunkSteps : ConfigBefore(p) < i /\ i < p}
                  before == {i \in ChunkSteps : i < ConfigBefore(p)}
              IN BytesIn(group) =
                    Min(ST_TP_FLASH_BUFFER_SIZE, op.arg.size - BytesIn(before))
        /\ \A k \in StepsOf("write_flash") :
              out.flash[k].ret = EC_SUCCESS =>
                  BytesIn(ChunkSteps) = op.arg.size

\* A call that wrote a full group and a last group with a short chunk.
C6_Witness ==
    /\ IsUpdateWrite
    /\ ret = EC_SUCCESS
    /\ Cardinality(ConfigSteps) = 2
    /\ \E i \in ChunkSteps : out.flash[i].len < ST_TP_DMA_CHUNK_SIZE
    /\ BytesIn(ChunkSteps) = op.arg.size

---------------------------------------------------------------------------
(* Properties of st_tp_load_host_data *)

\* The handlers that call st_tp_load_host_data, once and first of all
IsLoadCaller == op.name \in {"touchpad_get_info", "console version"}

LoadSteps(kind) == {i \in 1..Len(out.load) : out.load[i].kind = kind}
\* The header after the first read, and the return of the call
FirstHeader == out.load[1]
LoadReturn == out.load[CHOOSE i \in LoadSteps("return") : TRUE]
\* The transactions (and sleeps) of the call
LoadTx == SubSeq(tx, 1, LoadReturn.at)
IsReload(m) == m.cmd = "WRITE_SYSTEM_COMMAND" /\ m.sub = "0x06"
Reloads == {i \in 1..Len(LoadTx) : IsReload(LoadTx[i])}
Resident == FirstHeader.h.mem_id = FirstHeader.mem_id

\* C11: when the header in rx_buf after the first read has the id asked
\* for, st_tp_load_host_data returns EC_SUCCESS and that read is its only
\* transaction: no reload command, no poll, no sleep.
C11_ResidentDataIsNotReloaded ==
    (IsLoadCaller /\ Resident) =>
        /\ LoadReturn.ret = EC_SUCCESS
        /\ LoadReturn.at = 1
        /\ LoadTx[1].cmd = "READ_HOST_DATA_MEMORY"
        /\ LoadSteps("poll") = {}

\* The controller showed the system info and the read succeeded.
C11_Witness ==
    /\ IsLoadCaller
    /\ Resident
    /\ tx[1].ret = EC_SUCCESS
    /\ LoadReturn.at = 1
    /\ Len(tx) = 2

\* A poll shows the id asked for with a count other than the one before
\* the reload; with the magic of the header as well
NewCount(p) == p.h.mem_id = p.mem_id /\ p.h.count # FirstHeader.h.count
NewData(p) == p.h.magic_ok /\ NewCount(p)
LastPoll(i) == \A j \in LoadSteps("poll") : j <= i

\* C12 as stated: one reload command, at most LOAD_RETRY polls, success at
\* the first poll with the id and a new count, EC_ERROR_TIMEOUT when
\* there is none.
C12_PollsUntilNewCount ==
    (IsLoadCaller /\ ~Resident) =>
        /\ Cardinality(Reloads) = 1
        /\ Cardinality(LoadSteps("poll")) <= LOAD_RETRY
        /\ \A i \in LoadSteps("poll") :
              NewCount(out.load[i]) =>
                  (LastPoll(i) /\ LoadReturn.ret = EC_SUCCESS)
        /\ (\A i \in LoadSteps("poll") : ~NewCount(out.load[i])) =>
              LoadReturn.ret = EC_ERROR_TIMEOUT

\* C12 amended: the reload command is the second transaction and the only
\* one; when it fails its error is returned without a poll; otherwise
\* there are at most LOAD_RETRY polls, each followed by a sleep unless it
\* ends the call, the call returns EC_SUCCESS at the first poll whose
\* header has the magic, the id and a new count, and EC_ERROR_TIMEOUT
\* after LOAD_RETRY polls without one.
C12_PollsUntilNewData ==
    (IsLoadCaller /\ ~Resident) =>
        /\ Reloads = {2}
        /\ Len(LoadTx) >= 2
        /\ IF LoadTx[2].ret # EC_SUCCESS
           THEN /\ LoadReturn.ret = LoadTx[2].ret
                /\ LoadSteps("poll") = {}
                /\ Len(LoadTx) = 2
           ELSE /\ Cardinality(LoadSteps("poll")) <= LOAD_RETRY
                /\ \A i \in LoadSteps("poll") :
                      IF NewData(out.load[i])
                      THEN /\ LastPoll(i)
                           /\ LoadReturn.ret = EC_SUCCESS
                           /\ LoadReturn.at = out.load[i].at
                      ELSE /\ out.load[i].at < Len(LoadTx)
                           /\ LoadTx[out.load[i].at + 1].cmd = "msleep"
                /\ (\A i \in LoadSteps("poll") : ~NewData(out.load[i])) =>
                      /\ LoadReturn.ret = EC_ERROR_TIMEOUT
                      /\ Cardinality(LoadSteps("poll")) = LOAD_RETRY

\* The data came at the last poll the driver makes.
C12_Witness ==
    /\ IsLoadCaller
    /\ ~Resident
    /\ Cardinality(LoadSteps("poll")) = LOAD_RETRY
    /\ LoadReturn.ret = EC_SUCCESS

---------------------------------------------------------------------------
(* Properties of the flash programming steps *)

\* Positions in tx of the register writes of the flash programming: the
\* hold and unlock writes, the erase, the chunks, the DMA configuration
\* and the DMA start
HwRegWrites == {i \in 1..Len(tx) : tx[i].cmd = "WRITE_HW_REG"}

\* C13: when a register write of the flash programming fails during a
\* touchpad_update_write call, the call returns that error and sends no
\* register write after it.
C13_FlashFailureAborts ==
    IsUpdateWrite =>
        \A i \in HwRegWrites :
            tx[i].ret # EC_SUCCESS =>
                /\ ret = tx[i].ret
                /\ \A j \in HwRegWrites : j <= i

---------------------------------------------------------------------------
(* Properties of the host's malformed requests *)

\* What the driver and the controller hold, the console aside
DriverState ==
    <<system_state, dev, gpio_int, deferred, rx_buf, system_info, irq_ts,
      tp_wake, spi_buffer_index, usb_buffer_index, usb_packet,
      transmit_report_offset, packet_header, hm_wake, hm_pc, ep_tx>>

IsDebug == op.name = "touchpad_debug"

\* The last handler was touchpad_update_write with an offset off the
\* chunk size
Unaligned == IsUpdateWrite /\ op.arg.offset % ST_TP_DMA_CHUNK_SIZE # 0

\* The last handler was touchpad_debug with a parameter of the wrong
\* size or with an unknown command byte
BadDebug ==
    /\ IsDebug
    /\ \/ op.arg.param_size # 1
       \/ op.arg.param # ST_TP_DEBUG_CMD_CALIBRATE

\* C14: touchpad_update_write with an offset that is not a multiple of
\* ST_TP_DMA_CHUNK_SIZE returns EC_ERROR_INVAL, touchpad_debug with
\* param_size # 1 or an unknown command byte returns
\* EC_RES_INVALID_PARAM; neither issues a transaction nor changes the
\* state of the driver.
C14_MalformedIsRejected ==
    [][/\ Unaligned' => ret' = EC_ERROR_INVAL
       /\ BadDebug' => ret' = EC_RES_INVALID_PARAM
       /\ (Unaligned' \/ BadDebug') =>
             /\ tx' = <<>>
             /\ upd' = <<>>
             /\ DriverState' = DriverState]_vars

\* A calibration with a parameter of two bytes was rejected while the
\* touchpad was scanning.
C14_Witness ==
    /\ BadDebug
    /\ op.arg.param_size = 2
    /\ op.arg.param = ST_TP_DEBUG_CMD_CALIBRATE
    /\ ret = EC_RES_INVALID_PARAM
    /\ system_state # 0

---------------------------------------------------------------------------
(* Properties of the end of an update *)

\* The last handler called st_tp_full_initialize_start at the end of an
\* update: the line printed before the call is on the console.
EndOfUpdate ==
    /\ IsUpdateWrite
    /\ \E i \in 1..Len(log) : log[i].line = "End update"

\* The successful calls have covered the whole image.
ImageComplete == written >= CONFIG_TOUCHPAD_VIRTUAL_SIZE

\* C15: full reinitialization is triggered by the successful call with
\* which the blocks written reach CONFIG_TOUCHPAD_VIRTUAL_SIZE, and by no
\* call made while an earlier part of the image is not written.
C15_ReinitWhenImageComplete ==
    IsUpdateWrite =>
        /\ (ret = EC_SUCCESS /\ ImageComplete /\
                ImageEnd(op.arg.offset, op.arg.size)) => EndOfUpdate
        /\ EndOfUpdate => ImageComplete

\* C15 amended: full reinitialization is triggered exactly by the calls
\* that return success for a block that begins at a multiple of the chunk
\* size outside the CX section and ends at CONFIG_TOUCHPAD_VIRTUAL_SIZE,
\* whatever the calls before have written.
C15_ReinitAtLastBlock ==
    IsUpdateWrite =>
        (EndOfUpdate <=>
            /\ ret = EC_SUCCESS
            /\ op.arg.offset % ST_TP_DMA_CHUNK_SIZE = 0
            /\ ~InCxSection(op.arg.offset)
            /\ op.arg.offset + op.arg.size = CONFIG_TOUCHPAD_VIRTUAL_SIZE)

\* The last block was written and the touchpad reinitialized while the
\* blocks before it were not written.
C15_Witness ==
    /\ EndOfUpdate
    /\ ~ImageComplete
    /\ op.arg.size > 0

---------------------------------------------------------------------------
(* Properties of the execution contexts *)

\* C16: spi_buffer_index is modified only by the capture path
\* (st_tp_read_report) and usb_buffer_index only in one execution
\* context, that of the heat map task, whose heatmap_send_packet
\* advances it; each changes only by an increment of one.
C16_OneWriterPerIndex ==
    [][/\ spi_buffer_index' # spi_buffer_index =>
             /\ op'.name = "st_tp_read_report"
             /\ spi_buffer_index' = IndexInc(spi_buffer_index)
       /\ usb_buffer_index' # usb_buffer_index =>
             /\ ExecContext(op'.name) = "heatmap task"
             /\ usb_buffer_index' = IndexInc(usb_buffer_index)]_vars

\* What an interrupt handler leaves alone besides what it is there for
Untouched ==
    <<system_state, dev, gpio_int, rx_buf, system_info, spi_buffer_index,
      usb_buffer_index, usb_packet, transmit_report_offset, packet_header,
      hm_pc, ep_tx>>

IsInterrupt(name) == op.name = name

\* C17: no bus transaction is issued in an interrupt: touchpad_interrupt
\* only records the timestamp and wakes the touchpad task,
\* st_tp_usb_tx_callback only wakes the heat map task,
\* st_tp_usb_set_interface only schedules a deferred call; a handler that
\* issues a transaction runs in a task.
C17_NoBusInInterrupt ==
    [][/\ IsInterrupt("touchpad_interrupt")' =>
             /\ irq_ts' = op'.arg
             /\ tp_wake'
             /\ UNCHANGED <<Untouched, deferred, hm_wake>>
       /\ IsInterrupt("st_tp_usb_tx_callback")' =>
             /\ hm_wake'
             /\ UNCHANGED <<Untouched, deferred, tp_wake, irq_ts>>
       /\ IsInterrupt("st_tp_usb_set_interface")' =>
             /\ deferred' \in {deferred \cup {"st_tp_enable_heat_map"},
                               deferred \cup {"st_tp_disable_heat_map"}}
             /\ UNCHANGED <<Untouched, hm_wake, tp_wake, irq_ts>>
       /\ tx' # <<>> =>
             ExecContext(op'.name) \in
                 {"touchpad task", "heatmap task", "deferred", "console",
                  "host command"}]_vars

\* A touchpad interrupt while the heat map is enabled woke the task and
\* issued nothing.
C17_Witness ==
    /\ IsInterrupt("touchpad_interrupt")
    /\ tp_wake
    /\ tx = <<>>
    /\ HasBit(system_state, SYSTEM_STATE_ENABLE_HEAT_MAP)

---------------------------------------------------------------------------
(* Properties of the capture in st_tp_read_report *)

\* Positions in tx of the frame reads
FrameReads ==
    {i \in 1..Len(tx) :
        tx[i].cmd = "READ_SPI_HOST_BUFFER" /\ tx[i].sub = "heat_map"}

\* The capture was attempted and st_tp_read_frame returned success.
Captured == out.tried /\ out.cap = EC_SUCCESS

---------------------------------------------------------------------------
(* Properties of the failed transactions *)

\* Positions of the failed transactions of st_tp_load_host_data
FailedLoadTx == {i \in 1..Len(LoadTx) : LoadTx[i].ret # EC_SUCCESS}

\* C19: a failed transaction ends the operation that issued it, which
\* returns the error of the transaction unchanged: in st_tp_load_host_data
\* a failed transaction is the last one and its error is what the
\* operation returns.
C19_FailureIsReturnedAtOnce ==
    IsLoadCaller =>
        \A i \in FailedLoadTx :
            /\ i = Len(LoadTx)
            /\ LoadReturn.ret = LoadTx[i].ret

\* C20: system_state, rx_buf and system_info are written in one task
\* only, the touchpad task that initializes them, and
\* transmit_report_offset in the heat map task only: no step of a
\* deferred call, a console command or a host command changes them.
C20_OneTaskPerState ==
    [][/\ system_state' # system_state =>
             ExecContext(op'.name) = "touchpad task"
       /\ rx_buf' # rx_buf =>
             ExecContext(op'.name) = "touchpad task"
       /\ system_info' # system_info =>
             ExecContext(op'.name) = "touchpad task"
       /\ transmit_report_offset' # transmit_report_offset =>
             ExecContext(op'.name) = "heatmap task"]_vars

---------------------------------------------------------------------------
(* Properties of heatmap_send_packet *)

\* The last handler was a turn of the heat map task.
IsSend == op.name \in {"heatmap_task", "heatmap_task retry"}

\* C21: transmit_report_offset stays in [0, sizeof(packet)); a call of
\* heatmap_send_packet that succeeds sends the bytes of the frame at
\* usb_buffer_index from the current offset on and advances the offset
\* by the bytes the USB accepted; when the offset reaches the size of the
\* packet it becomes 0 and usb_buffer_index advances by one; a call that
\* fails changes neither.
C21_OffsetTracksBytesSent ==
    [][/\ transmit_report_offset' \in 0..(PacketSize - 1)
       /\ IsSend' =>
             /\ Len(out'.iso) <= 1
             /\ ret' # 0 => out'.iso = <<>>
             /\ out'.iso = <<>> =>
                   UNCHANGED <<transmit_report_offset, usb_buffer_index>>
             /\ out'.iso # <<>> =>
                   /\ out'.iso[1].from = transmit_report_offset
                   /\ out'.iso[1].slot = usb_buffer_index % 2
                   /\ out'.iso[1].len > 0
                   /\ out'.iso[1].header.flags =
                         (IF transmit_report_offset = 0 THEN 1 ELSE 0)
                   /\ IF transmit_report_offset + out'.iso[1].len = PacketSize
                      THEN /\ transmit_report_offset' = 0
                           /\ usb_buffer_index' = IndexInc(usb_buffer_index)
                      ELSE /\ transmit_report_offset' =
                                 transmit_report_offset + out'.iso[1].len
                           /\ usb_buffer_index' = usb_buffer_index]_vars

\* The rest of a frame went out in a second packet: the offset is back
\* at 0 and the read index moved on.
C21_Witness ==
    /\ IsSend
    /\ out.iso # <<>>
    /\ out.iso[1].from > 0
    /\ transmit_report_offset = 0
    /\ usb_buffer_index = IndexInc(out.usb)

---------------------------------------------------------------------------
(* Properties of the heat map indices at the wrap of the write index *)

IsNotify == op.name = "st_tp_interrupt_send"

IsInterruptTx == op.name = "st_tp_interrupt_tx"

Wrapped == spi_buffer_index < usb_buffer_index

\* C22: every use of the heat map indices acts on the fill level
\* (spi_buffer_index - usb_buffer_index) modulo the width of the indices: a
\* frame is captured exactly when fewer than two wait, the heat map task
\* sends exactly when one waits, and a report that leaves a frame waiting
\* schedules the interrupt report, which flags a frame as available exactly
\* when one waits and is scheduled again after its transmission when one
\* waits.
C22_UsesActOnFillLevel ==
    /\ IsHeatReport => /\ out.tried <=> GapBefore <= 1
                       /\ Gap > 0 => "st_tp_interrupt_send" \in deferred
    /\ (op.name = "heatmap_task" /\ ~HasBit(system_state, SYSTEM_STATE_DEBUG_MODE))
          => (Len(out.iso) > 0 \/ ret # 0) <=> GapBefore > 0
    /\ IsNotify => \A i \in 1..Len(out.intr) :
                       out.intr[i].frame_available <=> Gap > 0
    /\ IsInterruptTx => (Gap > 0 => "st_tp_interrupt_send" \in deferred)

\* C22: the uses that subtract or test for equality are right at the wrap
C22_GateAndEmptyCheckAtWrap ==
    /\ IsHeatReport => (out.tried <=> GapBefore <= 1)
    /\ (op.name = "heatmap_task" /\ ~HasBit(system_state, SYSTEM_STATE_DEBUG_MODE))
          => (Len(out.iso) > 0 \/ ret # 0) <=> GapBefore > 0

C22_WrappedReport == IsHeatReport /\ Wrapped /\ Gap > 0 /\ out.tried

C22_HoldsBeforeWrap == Wrapped \/ C22_UsesActOnFillLevel

---------------------------------------------------------------------------
(* Properties of the polling loops *)

EchoPolling ==
    /\ op.name = "st_tp_full_initialize_end"
    /\ "st_tp_full_initialize_end" \in deferred

\* C23: the wait for the echo of the full initialization command makes a
\* bounded number of polls: the driver does not go on polling for ever,
\* each poll scheduling the next.
C23_EchoWaitEnds == []<>(~EchoPolling)

IsWait == op.name = "wait_for_flash_ready"

\* The reads of the status register a handler made, in order
Polls == SelectSeq(tx, LAMBDA t : t.cmd = "READ_HW_REG")

\* The controller shows the flash busy in its first op.arg answers: the
\* i-th poll succeeded and found the busy bit clear.
PollFoundReady(i) ==
    /\ Polls[i].ret = EC_SUCCESS
    /\ Cardinality({j \in 1..(i - 1) : Polls[j].ret = EC_SUCCESS}) >= op.arg

\* C24: wait_for_flash_ready polls at most FLASH_RETRY times, sleeps after
\* each poll that failed or found the flash busy, returns success at the
\* first poll that succeeded with the busy bit clear, the last one allowed
\* included, and EC_ERROR_TIMEOUT exactly when no poll did.
C24_FlashReadyWait ==
    IsWait =>
       /\ Len(Polls) \in 1..FLASH_RETRY
       /\ \A i \in 1..(Len(Polls) - 1) : ~PollFoundReady(i)
       /\ ret = EC_SUCCESS <=> PollFoundReady(Len(Polls))
       /\ ret # EC_SUCCESS => ret = EC_ERROR_TIMEOUT /\ Len(Polls) = FLASH_RETRY
       /\ \A k \in 1..Len(tx) :
             IF k % 2 = 1 THEN tx[k].cmd = "READ_HW_REG"
             ELSE tx[k].cmd = "msleep"
       /\ Len(tx) = IF ret = EC_SUCCESS THEN 2 * Len(Polls) - 1
                    ELSE 2 * Len(Polls)

C24_Witness ==
    /\ IsWait
    /\ ret = EC_SUCCESS
    /\ Len(Polls) = FLASH_RETRY
    /\ op.arg > 0

---------------------------------------------------------------------------
(* Properties of the full initialization *)

IsFullInitStart == op.name = "st_tp_full_initialize_start"

IsFullInitEnd == op.name = "st_tp_full_initialize_end"

IsFullInitCmd(t) ==
    t.cmd = "WRITE_SYSTEM_COMMAND" /\ t.sub = "0x00" /\ t.val = 3

\* A transaction of st_tp_stop_scan
IsStopScanTx(t) ==
    \/ t.cmd = "WRITE_SCAN_MODE_SELECT"
    \/ t.cmd = "WRITE_SYSTEM_COMMAND" /\ t.sub = "0x01" /\ t.val = 0

IsResetWaitTx(t) == t.cmd \in {"READ_ALL_EVENTS", "msleep"}

Resets == {k \in 1..Len(tx) : tx[k].cmd = "board_touchpad_reset"}

ReadyInRxBuf ==
    /\ rx_buf.kind = "events"
    /\ \E i \in 1..NumEventSlots : IsControllerReady(rx_buf.data[i])

EchoReported ==
    \E i \in 1..Len(log) :
        log[i].line = "Full panel initialization completed."

\* C25: st_tp_full_initialize_start stops the scan, then resets the
\* controller, then waits for controller-ready, and sends the full
\* initialization command last and only after a read that showed
\* controller-ready; st_tp_full_initialize_end polls for the echo first and
\* runs st_tp_init (whose first step is the reset) only after a poll that
\* returned events with the echo among them.
C25_FullInitOrder ==
    /\ IsFullInitStart =>
          /\ Cardinality(Resets) = 1
          /\ \A j \in Resets :
                /\ j > 1
                /\ \A i \in 1..(j - 1) : IsStopScanTx(tx[i])
                /\ IsStopScanTx(tx[j - 1]) /\ tx[j - 1].cmd = "WRITE_SYSTEM_COMMAND"
                /\ Len(upd) = 1 /\ upd[1].target = 0
                /\ upd[1].mask = SYSTEM_STATE_ACTIVE_MODE
                /\ \A k \in (j + 1)..Len(tx) :
                      IF IsFullInitCmd(tx[k])
                      THEN /\ k = Len(tx)
                           /\ k - 1 > j
                           /\ tx[k - 1].cmd = "READ_ALL_EVENTS"
                           /\ tx[k - 1].ret = EC_SUCCESS
                           /\ ReadyInRxBuf
                           /\ "st_tp_full_initialize_end" \in deferred
                      ELSE IsResetWaitTx(tx[k])
    /\ IsFullInitEnd =>
          /\ Len(tx) >= 1 /\ tx[1].cmd = "READ_ALL_EVENTS"
          /\ \A k \in 1..Len(tx) : ~IsFullInitCmd(tx[k])
          /\ \A j \in Resets :
                /\ j = 2
                /\ tx[1].ret = EC_SUCCESS
                /\ Len(out.evs) >= 1 /\ out.evs[1] >= 1
                /\ EchoReported

\* The command was sent after a wait of two polls
C25_WitnessStart ==
    /\ IsFullInitStart
    /\ IsFullInitCmd(tx[Len(tx)])
    /\ \E k \in 1..Len(tx) : tx[k].cmd = "msleep"

C25_Witness ==
    /\ IsFullInitEnd
    /\ Resets # {}
    /\ system_state # 0

\* The calls of st_tp_update_system_state a handler made after its reset of
\* the controller: st_tp_full_initialize_start stops the scan before it.
UpdatesAfterReset ==
    IF IsFullInitStart THEN SubSeq(upd, 2, Len(upd)) ELSE upd

\* C26: a handler that reset the controller has set system_state to 0
\* before anything reads it: the first st_tp_update_system_state after the
\* reset starts from 0, and with no such call system_state is 0 when the
\* handler returns, whether the controller became ready or not.
C26_StateClearedAfterReset ==
    Resets # {} =>
       IF UpdatesAfterReset = <<>> THEN system_state = 0
       ELSE UpdatesAfterReset[1].pre = 0

\* C26: st_tp_init clears system_state once the controller is ready
C26_ClearedWhenInitSucceeds ==
    (Resets # {} /\ UpdatesAfterReset # <<>>) => UpdatesAfterReset[1].pre = 0

---------------------------------------------------------------------------
(* Properties of the order of the flash programming *)

IsHwRegWrite(t, sub) == t.cmd = "WRITE_HW_REG" /\ t.sub = sub

IsChunkTx(t) == IsHwRegWrite(t, "chunk")

IsDmaConfigTx(t) == IsHwRegWrite(t, "dma_config")

IsStartDmaTx(t) == IsHwRegWrite(t, "20000071")

IsDmaPollTx(t) == t.cmd = "READ_HW_REG" /\ t.sub = "71"

ChunkTxs == {k \in 1..Len(tx) : IsChunkTx(tx[k])}

\* Some transaction before position k is one of the kind
Before(k, Kind(_)) == \E j \in 1..(k - 1) : Kind(tx[j])

IsStopIrqTx(t) ==
    t.cmd = "WRITE_SYSTEM_COMMAND" /\ t.sub = "0x01" /\ t.val = 0

IsHoldTx(t) == IsHwRegWrite(t, "20000024")

IsUnlockTx(t) == IsHwRegWrite(t, "20000025")

IsUnlockEraseTx(t) == IsHwRegWrite(t, "200000DE")

IsEraseTx(t) == IsHwRegWrite(t, "2000006A")

IsPrepareTx(t) ==
    \/ t.cmd = "WRITE_HW_REG" /\ t.sub \in {"20000024", "20000025",
           "200000DE", "20000128:FFFFFF83", "2000006B", "2000006A"}
    \/ t.cmd = "READ_HW_REG" /\ t.sub = "6A"

\* The order within the groups: a DMA configuration follows a chunk that
\* was written, the DMA start follows the configuration, the polls
\* follow the start, and a chunk that follows a group follows a poll that
\* ended its wait.
GroupOrder ==
    \A k \in 1..Len(tx) :
        /\ IsDmaConfigTx(tx[k]) =>
              k > 1 /\ IsChunkTx(tx[k - 1]) /\ tx[k - 1].ret = EC_SUCCESS
        /\ IsStartDmaTx(tx[k]) =>
              k > 1 /\ IsDmaConfigTx(tx[k - 1]) /\ tx[k - 1].ret = EC_SUCCESS
        /\ IsDmaPollTx(tx[k]) =>
              /\ k > 1
              /\ \/ IsStartDmaTx(tx[k - 1]) /\ tx[k - 1].ret = EC_SUCCESS
                 \/ /\ tx[k - 1].cmd = "msleep"
                    /\ k > 2 /\ IsDmaPollTx(tx[k - 2])
        /\ (IsChunkTx(tx[k]) /\ Before(k, IsChunkTx)) =>
              \/ IsChunkTx(tx[k - 1]) /\ tx[k - 1].ret = EC_SUCCESS
              \/ IsDmaPollTx(tx[k - 1]) /\ tx[k - 1].ret = EC_SUCCESS

\* C27: in a touchpad_update_write call the transactions of each group
\* come in the order chunks, one DMA configuration, DMA start, polls, a
\* chunk of the next group only after the wait of the group before it
\* succeeded, and in a call at offset 0 the first chunk comes after the
\* stop of the scan, the hold and unlock writes and the erase.
C27_ProgrammingOrder ==
    IsUpdateWrite =>
       /\ GroupOrder
       /\ op.arg.offset = 0 =>
             \A k \in ChunkTxs :
                /\ Before(k, IsStopIrqTx)
                /\ Before(k, IsHoldTx)
                /\ Before(k, IsUnlockTx)
                /\ Before(k, IsUnlockEraseTx)
                /\ Before(k, IsEraseTx)

\* C27: the order of the transactions that are made: the groups as above,
\* and in a call at offset 0 the stop of the scan, the hold and unlock
\* writes and every transaction of the erase before the first chunk.
C27_OrderOfWhatIsSent ==
    IsUpdateWrite =>
       /\ GroupOrder
       /\ op.arg.offset = 0 =>
             \A k \in ChunkTxs :
                /\ Before(k, IsStopIrqTx)
                /\ Before(k, IsHoldTx)
                /\ Before(k, IsUnlockTx)
                /\ Before(k, IsUnlockEraseTx)
                /\ \A j \in 1..Len(tx) : IsPrepareTx(tx[j]) => j < k

C27_TwoGroups ==
    /\ IsUpdateWrite
    /\ op.arg.offset = 0
    /\ \E k \in ChunkTxs : Before(k, IsDmaPollTx)

---------------------------------------------------------------------------
(* Properties of the bits a call of st_tp_update_system_state leaves alone *)

\* The byte of the feature-select command for the new state of a call
FeatureByte(u) ==
    (IF NewState(u)[SYSTEM_STATE_ENABLE_HEAT_MAP] THEN 1 ELSE 0)
    + (IF NewState(u)[SYSTEM_STATE_ENABLE_DOME_SWITCH] THEN 2 ELSE 0)

\* C28: a call of st_tp_update_system_state, whatever it returns, leaves
\* the bits of system_state outside its mask and the dome-switch-level bit
\* as they were, and the command of a flag group carries the bits of the
\* mask from the target and the others as they were.
C28_UnmaskedBitsKept ==
    \A k \in 1..Len(upd) :
        LET u == upd[k]
        IN /\ BitAnd(u.post, BitNot(u.mask)) = BitAnd(u.pre, BitNot(u.mask))
           /\ HasBit(u.post, SYSTEM_STATE_DOME_SWITCH_LEVEL)
                 = HasBit(u.pre, SYSTEM_STATE_DOME_SWITCH_LEVEL)
           /\ \A i \in 1..Len(u.cmds) :
                 /\ IsFeatureCmd(u.cmds[i]) => u.cmds[i].val = FeatureByte(u)
                 /\ IsActiveCmd(u.cmds[i]) =>
                       u.cmds[i].val
                          = (IF NewState(u)[SYSTEM_STATE_ACTIVE_MODE]
                             THEN 1 ELSE 0)

\* The heat map is switched off with the dome switch enabled and pressed:
\* the command keeps the dome switch enabled.
C28_Witness ==
    \E k \in 1..Len(upd) :
        /\ upd[k].mask = SYSTEM_STATE_ENABLE_HEAT_MAP
        /\ HasBit(upd[k].pre, SYSTEM_STATE_ENABLE_DOME_SWITCH)
        /\ HasBit(upd[k].pre, SYSTEM_STATE_DOME_SWITCH_LEVEL)
        /\ HasBit(upd[k].pre, SYSTEM_STATE_ACTIVE_MODE)
        /\ \E i \in 1..Len(upd[k].cmds) :
              IsFeatureCmd(upd[k].cmds[i]) /\ upd[k].cmds[i].val = 2

---------------------------------------------------------------------------
(* Properties of the error reports of a batch *)

\* The batch with its error reports taken for motion events
WithoutErrorReports(b) ==
    [i \in 1..NumEventSlots |->
        IF b[i].evt_id = "ERROR_REPORT"
        THEN [b[i] EXCEPT !.evt_id = "MOTION_POINTER"] ELSE b[i]]

ErrorSlots(b) ==
    {i \in 0..(NumEventSlots - 1) :
        b[i + 1].magic = ST_TP_EVENT_MAGIC /\ b[i + 1].evt_id = "ERROR_REPORT"}

---------------------------------------------------------------------------
(* Properties of the retry of a failed packet *)

IsRetry == op.name = "heatmap_task retry"

\* The task makes one call of heatmap_send_packet and, when it failed,
\* waits before the next; a retry comes only out of that wait.
WaitsBeforeRetry ==
    /\ IsSend' =>
          /\ Len(out'.iso) <= 1 /\ Len(log') <= 1
          /\ ret' # 0 => out'.iso = <<>> /\ hm_pc' = "retry"
          /\ ret' = 0 => hm_pc' = "wait"
    /\ IsRetry' => hm_pc = "retry"
    /\ op'.name = "heatmap_task" => hm_pc = "wait" /\ hm_wake

\* C30: after a failed heatmap_send_packet the task waits, for an event or
\* for the timeout, before it calls again, and the frame and the offset it
\* then sends from are those of the failed call: neither changes while
\* the task waits to retry.
C30_RetriesSameFrameAfterWait ==
    [][/\ WaitsBeforeRetry
       /\ (hm_pc = "retry" /\ ~IsSend') =>
             UNCHANGED <<usb_buffer_index, transmit_report_offset>>]_vars

\* C30: the waiting alone, and what the failed call itself leaves alone
C30_WaitsBeforeRetry ==
    [][/\ WaitsBeforeRetry
       /\ (IsSend' /\ ret' # 0) =>
             UNCHANGED <<usb_buffer_index, transmit_report_offset>>]_vars

\* C21: while a frame is partly sent the read index moves only when a
\* call of heatmap_send_packet has sent the rest of it, so that the bytes
\* of a frame go out once and in order.
C21_FrameSentOnceInOrder ==
    [][(transmit_report_offset > 0
           /\ usb_buffer_index' # usb_buffer_index) =>
              IsSend' /\ transmit_report_offset' = 0]_vars

---------------------------------------------------------------------------
(* Properties of the button of a touch report *)

\* The level of the dome switch the driver keeps: pressed
Pressed == HasBit(system_state, SYSTEM_STATE_DOME_SWITCH_LEVEL)

\* The last handler was a touch report that read a header with the change
\* flag
ReadChange == IsHidReport /\ out.hdrs # <<>> /\ out.hdrs[1].domeswitch_chg

\* The button of every report the handler gave is the level kept
ButtonIsLevel ==
    IsHidReport =>
        \A i \in 1..Len(reports) : reports[i].button = (IF Pressed THEN 1 ELSE 0)

\* The last handler ran st_tp_init() past its reset, to the read of the
\* system info
Initialized ==
    /\ op.name \in {"st_tp_init", "st_tp_full_initialize_end"}
    /\ \E k \in 1..Len(tx) : tx[k].cmd = "READ_HOST_DATA_MEMORY"

\* C31: in every emitted touch report the button is the inverse of the
\* raw level of the dome switch: 1 iff the most recent header that carried
\* the change flag reported level 0. The level kept changes only when a
\* header carries the change flag (to pressed iff the header's level is 0)
\* and is retained by every other step.
C31_ButtonFollowsLastChange ==
    [][/\ ButtonIsLevel'
       /\ Pressed' = IF ReadChange' THEN out'.hdrs[1].dome_switch_level = 0
                     ELSE Pressed]_vars

\* What holds: the level kept is also cleared (released) by st_tp_init()
\* when its reset succeeds, at the start of the task and at the end of a
\* full panel initialization.
C31_ButtonFollowsLastChangeOrInit ==
    [][/\ ButtonIsLevel'
       /\ Pressed' = IF ReadChange' THEN out'.hdrs[1].dome_switch_level = 0
                     ELSE IF Initialized' THEN FALSE
                     ELSE Pressed]_vars

\* A report with a finger and no change of the dome switch carries the
\* button pressed that an earlier header set.
C31_Witness ==
    /\ IsHidReport
    /\ ~ReadChange
    /\ Len(reports) = 1
    /\ reports[1].button = 1
    /\ reports[1].count = 1

\* The dome switch was pressed when a full initialization ended
C31_ClearedByInit ==
    Initialized /\ HasBit(op.pre, SYSTEM_STATE_DOME_SWITCH_LEVEL)

---------------------------------------------------------------------------
(* Properties of the frame capture *)

\* The last handler was a report that read a raw frame and scaled it
FrameWritten == IsHeatReport /\ out.wrote # <<>>

\* The slot the write index named when the report began
WriteSlot == out.spi % 2

\* The signed 16-bit sample of raw pixel i of the frame in rx_buf
Sample(i) ==
    IF rx_buf.data[i] < 2 ^ 15 THEN rx_buf.data[i]
    ELSE rx_buf.data[i] - 2 ^ 16

\* The pixel written for a sample
Scaled(sample) ==
    IF sample < 0 THEN 0
    ELSE IF Min(sample \div 2 ^ (BITS_PER_PIXEL - 8), 255)
               < ST_TP_HEAT_MAP_THRESHOLD
    THEN 0
    ELSE Min(sample \div 2 ^ (BITS_PER_PIXEL - 8), 255)

EmptyFrame == \A i \in 1..NumPixels : usb_packet[WriteSlot].frame[i] = 0

\* C32: for 2-byte raw pixels st_tp_read_frame writes, for every pixel, 0
\* if the signed 16-bit sample is negative, otherwise
\* min(sample >> (BITS_PER_PIXEL - 8), 255), replaced by 0 when it is below
\* ST_TP_HEAT_MAP_THRESHOLD; every pixel written is in 0..255 and is 0 or
\* at least the threshold; the pixels go to usb_packet[spi_buffer_index & 1];
\* a frame whose pixels are all 0 is a failed capture and the write index
\* does not advance.
C32_FrameIsScaled ==
    FrameWritten =>
        /\ rx_buf.kind = "heat_map"
        /\ out.wrote = <<WriteSlot>>
        /\ \A i \in 1..NumPixels :
              /\ usb_packet[WriteSlot].frame[i] = Scaled(Sample(i))
              /\ usb_packet[WriteSlot].frame[i] \in 0..255
              /\ \/ usb_packet[WriteSlot].frame[i] = 0
                 \/ usb_packet[WriteSlot].frame[i] >= ST_TP_HEAT_MAP_THRESHOLD
        /\ IF EmptyFrame
           THEN out.cap # EC_SUCCESS /\ spi_buffer_index = out.spi
           ELSE out.cap = EC_SUCCESS /\ spi_buffer_index = IndexInc(out.spi)

\* A frame with a negative sample and a sample past the 8-bit range was
\* written into the second slot.
C32_Witness ==
    /\ FrameWritten
    /\ WriteSlot = 1
    /\ Sample(1) < 0
    /\ Sample(2) \div 2 ^ (BITS_PER_PIXEL - 8) > 255
    /\ usb_packet[1].frame = <<0, 255>>

\* A frame of a negative sample and a sample below the threshold is empty.
C32_EmptyFrame ==
    /\ FrameWritten
    /\ Sample(1) < 0
    /\ Sample(2) > 0
    /\ EmptyFrame

---------------------------------------------------------------------------
(* Properties of the buffer indices under preemption *)

\* C33: in every reachable state, under any interleaving of the touchpad
\* task (capture and debug-mode consumption), the heat map task (USB
\* transmission and its retry loop) and the console's enable and disable
\* of debug mode, usb_buffer_index never exceeds spi_buffer_index: the
\* fill level spi_buffer_index - usb_buffer_index is 0, 1 or 2.
C33_ConsumerNeverOvertakes == Gap \in {0, 1, 2}

\* What holds: the fill level is 0, 1 or 2 as long as no capture of debug
\* mode is preempted between its spi_buffer_index++ and its
\* usb_buffer_index++ (every handler runs to its end before another
\* starts).
C33_NeverOvertakesBetweenHandlers == tp_pc = "run" /\ Gap \in {0, 1, 2}

\* The heat map task took the one frame of the buffer while the touchpad
\* task was in print_frame().
C33_DrainedWhilePrinting == tp_pc = "print" /\ Gap = 0

---------------------------------------------------------------------------
(* Properties of the slot a capture writes *)

\* The last handler is a report whose st_tp_read_frame wrote pixels
WroteFrame ==
    /\ op.name = "st_tp_read_report"
    /\ out.wrote # <<>>

\* The transmit path was draining usb_packet[usb_buffer_index & 1] when
\* the report began: the buffer held a frame, or a frame was half sent.
\* (A report leaves transmit_report_offset alone.)
WasDraining == out.spi # out.usb \/ transmit_report_offset > 0

\* C34: whenever st_tp_read_frame writes pixels into
\* usb_packet[spi_buffer_index & 1], that slot is not the slot the transmit
\* path is draining (usb_packet[usb_buffer_index & 1] while the buffer is
\* not empty or transmit_report_offset > 0).
C34_WritesTheSlotNotDrained ==
    WroteFrame =>
        /\ out.wrote = <<out.spi % 2>>
        /\ WasDraining => out.spi % 2 # out.usb % 2

\* A frame was written while the other slot was half sent.
C34_Witness ==
    /\ WroteFrame
    /\ out.spi # out.usb
    /\ transmit_report_offset > 0
    /\ out.wrote = <<1 - (out.usb % 2)>>

---------------------------------------------------------------------------
(* Properties of the progress of the heat map *)

\* A step that takes bytes out of the buffer (it advances the read index
\* or the offset of the frame in transmission): the heat map task woken by
\* a USB callback or back in its retry loop, with the USB accepting the
\* packet, or the touchpad task reading a report after an interrupt.
AdvancesRead ==
    /\ UNCHANGED tp_started
    /\ \/ /\ hm_pc = "wait"
          /\ \E env \in UsbEnvs :
                Finish("heatmap_task", 0,
                       heatmap_task([Ctx(env) EXCEPT !.hmw = FALSE]))
       \/ /\ hm_pc = "retry"
          /\ \E env \in UsbEnvs :
                Finish("heatmap_task retry", 0,
                       heatmap_retry([Ctx(env) EXCEPT !.hmw = FALSE]))
       \/ /\ tp_started
          /\ \E env \in HeatReportEnvs :
                Finish("st_tp_read_report", 0, st_tp_read_report(Ctx(env)))
    /\ \/ usb_buffer_index' # usb_buffer_index
       \/ transmit_report_offset' # transmit_report_offset

HeatMapEnabled == HasBit(system_state, SYSTEM_STATE_ENABLE_HEAT_MAP)

\* Both slots hold a frame and neither the heat map task nor the touchpad
\* task can take one out, whatever the USB and the controller answer.
Stuck == HeatMapEnabled /\ Gap = 2 /\ ~ENABLED AdvancesRead

\* C35: while heat-map mode is enabled every captured frame is consumed in
\* the end, also across console toggles of debug mode: the pipeline never
\* reaches a state where the gap is 2 and no execution context can advance
\* the read index.
C35_NeverStuck == ~Stuck

\* The state in which the pipeline is stuck: both slots full in debug mode,
\* where the heat map task sends nothing and the touchpad task consumes a
\* frame only when it captures one.
C35_StuckOnlyInDebugMode ==
    Stuck <=>
        /\ HeatMapEnabled
        /\ Gap = 2
        /\ HasBit(system_state, SYSTEM_STATE_DEBUG_MODE)
        /\ hm_pc = "wait"


----------------------------------------------------------------------------
(* Properties of st_tp_read_report: the acknowledgement *)

IsAck(t) == t.cmd = "SPI_HOST_BUFFER_ACK"

Acks == {k \in 1..Len(tx) : IsAck(tx[k])}

ReadReportRan == op.name = "st_tp_read_report"

HeatMapWasSet == HasBit(op.pre, SYSTEM_STATE_ENABLE_HEAT_MAP)

\* The transactions of the handler's two paths
CaptureRead ==
    {k \in 1..Len(tx) : tx[k].cmd = "READ_SPI_HOST_BUFFER"
                           /\ tx[k].sub = "heat_map"}

HeaderReadAt ==
    {k \in 1..Len(tx) : tx[k].cmd = "READ_SPI_HOST_BUFFER"
                           /\ tx[k].sub = "header"}

\* C36: every st_tp_read_report issues exactly one host-buffer ACK, as its
\* last transaction, whether the capture or the HID report before it went
\* well, failed or was skipped, and returns the result of that ACK; with
\* the heat-map bit set it reads no events and writes no HID report, with
\* the bit clear it attempts no capture.
C36_OneAckLast ==
    ReadReportRan =>
        /\ Cardinality(Acks) = 1
        /\ Len(tx) \in Acks
        /\ ret = tx[Len(tx)].ret
        /\ HeatMapWasSet => /\ HeaderReadAt = {} /\ EventsRead = <<>>
                            /\ reports = <<>>
        /\ ~HeatMapWasSet => /\ ~out.tried /\ CaptureRead = {}
                             /\ out.wrote = <<>> /\ HeaderReadAt # {}

\* A capture that failed on the bus is acknowledged and the report returns
\* the acknowledgement's EC_SUCCESS.
C36_Witness ==
    /\ ReadReportRan /\ HeatMapWasSet
    /\ out.tried /\ out.cap \notin {EC_SUCCESS, -1}
    /\ Acks # {} /\ ret = EC_SUCCESS

\* A capture skipped at a full buffer is acknowledged as well.
C36_SkippedIsAcked ==
    ~(ReadReportRan /\ HeatMapWasSet /\ ~out.tried /\ Acks # {})


----------------------------------------------------------------------------
(* Properties of st_tp_start_scan and st_tp_stop_scan *)

\* The interrupt-enable command of the controller
IsIntCmd(t, v) ==
    t.cmd = "WRITE_SYSTEM_COMMAND" /\ t.sub = "0x01" /\ t.val = v

IntCmds(v) == {k \in 1..Len(tx) : IsIntCmd(tx[k], v)}

StartScanRan == op.name = "st_tp_start_scan"

StopScanRan == op.name = "st_tp_stop_scan"

\* The result of the state update the handler began with
UpdateRet == IF upd = <<>> THEN EC_SUCCESS ELSE upd[1].ret

\* C37: st_tp_start_scan whose state update failed returns its error after
\* no ACK, no GPIO call and no interrupt command; after a successful update
\* it sends the ACK, enables the GPIO interrupt and then sends the
\* interrupt-enable command.  st_tp_stop_scan sends the interrupt-disable
\* command as its last transaction and then disables the GPIO interrupt,
\* whatever the state update returned, and returns the update's result.
C37_ScanOrder ==
    /\ StartScanRan /\ UpdateRet # EC_SUCCESS =>
          /\ ret = UpdateRet
          /\ Acks = {} /\ IntCmds(0) \cup IntCmds(1) = {}
          /\ out.gpio = <<>>
    /\ StartScanRan /\ UpdateRet = EC_SUCCESS =>
          /\ ret = EC_SUCCESS
          /\ Len(tx) >= 2
          /\ Acks = {Len(tx) - 1}
          /\ IntCmds(1) = {Len(tx)}
          /\ out.gpio = <<[enable |-> TRUE, at |-> Len(tx) - 1]>>
          /\ gpio_int
    /\ StopScanRan =>
          /\ ret = UpdateRet
          /\ Len(tx) >= 1
          /\ IntCmds(0) = {Len(tx)}
          /\ out.gpio = <<[enable |-> FALSE, at |-> Len(tx)]>>
          /\ ~gpio_int

\* A stop whose state update failed, after a start that went well.
C37_Witness ==
    /\ StopScanRan /\ UpdateRet # EC_SUCCESS
    /\ ~gpio_int /\ out.gpio # <<>>
    /\ HasBit(system_state, SYSTEM_STATE_ACTIVE_MODE)

\* A start whose state update failed leaves the interrupt as it was.
C37_FailedStart ==
    ~(StartScanRan /\ UpdateRet # EC_SUCCESS /\ ~gpio_int /\ tx # <<>>)


----------------------------------------------------------------------------
(* Properties of packet_header *)

HeaderIndexMod == 2 ^ HeaderIndexBits

\* The payload write of the last heatmap_send_packet failed: its CPRINTS
PayloadFailed == IsSend /\ log # <<>>

\* C38: packet_header.index advances by one for each packet handed to the
\* host and by nothing else: a heatmap_send_packet whose payload write
\* failed leaves the index as it was.
C38_IndexCountsPackets ==
    [][packet_header'.index =
          (packet_header.index + (IF IsSend' THEN Len(out'.iso) ELSE 0))
             % HeaderIndexMod]_vars

\* What the code does: the index advances with each header written, the
\* payload write that follows may fail; and a packet handed to the host
\* carries NEW_FRAME exactly when it starts at offset 0 of the frame.
C38_IndexCountsHeaders ==
    [][/\ packet_header'.index =
             (packet_header.index
                + (IF IsSend' /\ (out'.iso # <<>> \/ PayloadFailed')
                   THEN 1 ELSE 0)) % HeaderIndexMod
       /\ IsSend' =>
             \A i \in 1..Len(out'.iso) :
                /\ out'.iso[i].header.index = packet_header.index
                /\ out'.iso[i].header.flags = 1 <=> out'.iso[i].from = 0
                /\ out'.iso[i].from = transmit_report_offset]_vars

\* A packet goes out after a failed payload write: an index value was
\* passed over.
C38_IndexSkipped ==
    ~(IsSend /\ out.iso # <<>> /\ op.name = "heatmap_task retry"
        /\ out.iso[1].header.flags = 1)


----------------------------------------------------------------------------
(* Properties of st_tp_read_system_info: the cached system_info *)

\* touchpad_get_info() ran and st_tp_read_system_info(1) returned an error:
\* the default values were reported.
InfoReadFailed == op.name = "touchpad_get_info" /\ out.tp.default

\* The system info block was read from the controller by the last handler.
InfoBlockRead ==
    \E k \in 1..Len(tx) : /\ tx[k].cmd = "READ_HOST_DATA_MEMORY"
                          /\ tx[k].sub = "system_info"
                          /\ tx[k].ret = EC_SUCCESS

BadInfoHeader(info) ==
    ~info.magic_ok \/ info.mem_id # ST_TP_MEM_ID_SYSTEM_INFO

HeatMapAddr == get_heat_map_addr([info |-> system_info])

\* C39: a st_tp_read_system_info that returns an error leaves the cached
\* system_info as it was before the call.
C39_ErrorKeepsSystemInfo ==
    [][InfoReadFailed' => system_info' = system_info]_vars

\* The address get_heat_map_addr takes from system_info is the same after
\* a st_tp_read_system_info that returned an error.
C39_ErrorKeepsHeatMapAddr ==
    [][InfoReadFailed' => HeatMapAddr' = HeatMapAddr]_vars

\* What the code does: a failed load or a failed read leaves system_info
\* alone; a block read with a bad header is in system_info when the error
\* is returned.
C39_ErrorBeforeCopyKeepsSystemInfo ==
    [][InfoReadFailed' =>
          IF InfoBlockRead'
          THEN system_info' = rx_buf'.data /\ BadInfoHeader(system_info')
          ELSE system_info' = system_info]_vars


----------------------------------------------------------------------------
(* Properties of st_tp_write_flash: the DMA configuration *)

\* The DMA configurations of the last call, in their order
DmaConfigs == SelectSeq(out.flash, LAMBDA s : s.kind = "dma_config")

\* Bytes of the k-th group of a call for size bytes
GroupBytes(k, size) ==
    Min(ST_TP_FLASH_BUFFER_SIZE, size - (k - 1) * ST_TP_FLASH_BUFFER_SIZE)

\* The word offset of the k-th group of a call at a byte offset
GroupWordOffset(k, offset) ==
    offset \div 4 + (k - 1) * (ST_TP_FLASH_BUFFER_SIZE \div 4)

\* A block of whole words at an aligned offset of the range was written.
DmaCall ==
    /\ IsUpdateWrite
    /\ op.arg.offset \in 0..FlashRange
    /\ op.arg.offset % ST_TP_DMA_CHUNK_SIZE = 0
    /\ op.arg.size % 4 = 0

\* C40: for every chunk-aligned offset from 0 to 1M and every group of the
\* call, the DMA configuration carries the group's word offset and its
\* word count less one, as they are.
C40_DmaConfigExact ==
    DmaCall =>
        \A k \in 1..Len(DmaConfigs) :
            /\ DmaConfigs[k].from = GroupWordOffset(k, op.arg.offset)
            /\ DmaConfigs[k].len = GroupBytes(k, op.arg.size) \div 4 - 1

\* What the code does: two bytes carry the word offset modulo 2^16; it
\* is the word offset itself for the groups that end within the first
\* 256K of the flash.
C40_DmaConfigModulo ==
    DmaCall =>
        \A k \in 1..Len(DmaConfigs) :
            /\ DmaConfigs[k].from = GroupWordOffset(k, op.arg.offset) % 65536
            /\ DmaConfigs[k].len = GroupBytes(k, op.arg.size) \div 4 - 1
            /\ DmaConfigs[k].len \in 0..65535
            /\ GroupWordOffset(k, op.arg.offset) < 65536 =>
                  DmaConfigs[k].from = GroupWordOffset(k, op.arg.offset)

\* The second group of a block that crosses 256K is configured at word 0.
C40_WrapsAt256K ==
    ~(DmaCall /\ Len(DmaConfigs) = 2 /\ DmaConfigs[1].from = 65534
        /\ DmaConfigs[2].from = 0 /\ ret = EC_SUCCESS)
====
